---- MODULE Spec2Model ----
(***************************************************************************)
(* Knowledge-base search of the Vezlo assistant server:                    *)
(* KnowledgeBaseService.search / semanticSearch / keywordSearch /          *)
(* cosineSimilarity / generateEmbedding, and the two callers of search     *)
(* (KnowledgeController.search and AIService.generateResponse).            *)
(* The item store is changed by KnowledgeController.createItem /           *)
(* updateItem / deleteItem and the KnowledgeBaseService methods they call  *)
(* (SpecItems); a search runs on a store that does not change (Spec).      *)
(*                                                                         *)
(* One request is followed from the call to its return.  An action is one  *)
(* turn of the event loop: it starts at the external event that resumes    *)
(* the request (the call itself, the settling of fetch, the arrival of the *)
(* response body, a timer, a database reply) and runs the code up to the   *)
(* next await on the outside world.                                        *)
(*                                                                         *)
(* Scores are exact reals of the form n / sqrt(d2), kept as the pair       *)
(* [n, d2]; embeddings have Dim components instead of 1536.                *)
(***************************************************************************)
EXTENDS Integers, Sequences, FiniteSets, TLC

\* ------------------------------------------------------------------ bounds
MaxLimit == 3            \* largest limit a request body carries
MaxItems == 2            \* most rows the table holds while items are created and deleted
MantissaBits == 6        \* significant bits of a number (53 in a double)
MaxExponent == 8         \* largest binary exponent of a number (1023 in a double)
MaxComponent == 3        \* largest integer component of a compared vector
MaxDim == 2              \* most components of a compared vector
MaxOps == 3              \* most chat requests and ChatManager calls of a run

\* ------------------------------------------------------- program constants
maxRetriesFour == 3 + 1
maxRetries == 3          \* generateEmbedding: const maxRetries = 3
DefaultLimit == 5        \* search: options.limit || 5
AILimit == 3             \* AIService.generateResponse: limit: 3
embeddingDimensions == 2 \* knowledge.embeddingDimensions and vector(1536): 1536, scaled to 2

\* ------------------------------------------------------------ plain helpers
Min(a, b) == IF a < b THEN a ELSE b

Ceil2(n) == (n + 1) \div 2          \* Math.ceil(n / 2) for n >= 0

\* Array.prototype.slice(0, n) for n >= 0
Slice(s, n) == SubSeq(s, 1, Min(n, Len(s)))

\* String.prototype.includes on texts kept as sequences of words
Includes(msg, pat) ==
    \E i \in 0..(Len(msg) - Len(pat)) :
        \A j \in 1..Len(pat) : msg[i + j] = pat[j]

\* parseInt of a string of decimal digits, kept as a sequence of characters
DigitValue == [c \in { "0", "1", "2", "3", "4", "5", "6", "7", "8", "9" } |->
                 CASE c = "0" -> 0 [] c = "1" -> 1 [] c = "2" -> 2 [] c = "3" -> 3
                   [] c = "4" -> 4 [] c = "5" -> 5 [] c = "6" -> 6 [] c = "7" -> 7
                   [] c = "8" -> 8 [] c = "9" -> 9]

RECURSIVE ParseInt(_)
ParseInt(s) ==
    IF Len(s) = 1 THEN DigitValue[s[1]]
    ELSE 10 * ParseInt(SubSeq(s, 1, Len(s) - 1)) + DigitValue[s[Len(s)]]

\* ------------------------------------------------------------------ scores
\* The real number n / sqrt(d2), d2 > 0.
Score(n, d2) == [n |-> n, d2 |-> d2]
Zero == Score(0, 1)
KeywordScore == Score(4, 25)            \* 0.8
DefaultThreshold == Score(7, 100)       \* 0.7

\* a >= b on the reals a.n/sqrt(a.d2) and b.n/sqrt(b.d2)
ScoreGE(a, b) ==
    LET l == a.n * a.n * b.d2
        r == b.n * b.n * a.d2
    IN  IF a.n >= 0 /\ b.n <= 0 THEN TRUE
        ELSE IF a.n < 0 /\ b.n >= 0 THEN FALSE
        ELSE IF a.n >= 0 THEN l >= r
        ELSE l <= r

ScoreEq(a, b) == ScoreGE(a, b) /\ ScoreGE(b, a)

\* JavaScript truthiness of a number: 0 is falsy
Truthy(s) == s.n # 0

\* ------------------------------------------------------- embedding values
\* A JavaScript value found where an embedding is expected:
\*   null     - null / undefined
\*   array    - number[] with components val
\*   json     - a string holding the JSON text of the array val
\*   text     - a string that is not JSON (never stored by the model's inputs)
EmbNull == [kind |-> "null", val |-> << >>]
Arr(v) == [kind |-> "array", val |-> v]
Json(v) == [kind |-> "json", val |-> v]

\* a.reduce((sum, val, i) => sum + val * b[i], 0)
RECURSIVE DotUpTo(_, _, _)
DotUpTo(a, b, k) == IF k = 0 THEN 0 ELSE DotUpTo(a, b, k - 1) + a[k] * b[k]

\* cosineSimilarity(a, b): dotProduct / (magnitudeA * magnitudeB), and 0 for
\* non-arrays, different lengths, empty arrays and zero magnitudes.
\* sqrt(x) * sqrt(y) is kept as sqrt(x * y); sqrt(x) = 0 exactly when x = 0.
cosineSimilarity(a, b) ==
    IF a.kind # "array" \/ b.kind # "array" THEN Zero
    ELSE IF Len(a.val) # Len(b.val) THEN Zero
    ELSE IF Len(a.val) = 0 THEN Zero
    ELSE LET dotProduct == DotUpTo(a.val, b.val, Len(a.val))
             magnitude2A == DotUpTo(a.val, a.val, Len(a.val))
             magnitude2B == DotUpTo(b.val, b.val, Len(b.val))
         IN  IF magnitude2A = 0 \/ magnitude2B = 0 THEN Zero
             ELSE Score(dotProduct, magnitude2A * magnitude2B)

\* ---------------------------------------------------------- search results
Result(id, score) == [id |-> id, score |-> score]

\* results.sort((a, b) => b.score - a.score): stable, descending by score
RECURSIVE InsertByScore(_, _)
InsertByScore(sorted, r) ==
    IF sorted = << >> THEN << r >>
    ELSE IF ScoreGE(Head(sorted).score, r.score)
         THEN << Head(sorted) >> \o InsertByScore(Tail(sorted), r)
         ELSE << r >> \o sorted

RECURSIVE SortByScore(_)
SortByScore(rs) ==
    IF rs = << >> THEN << >>
    ELSE InsertByScore(SortByScore(SubSeq(rs, 1, Len(rs) - 1)), rs[Len(rs)])

\* The body of data.forEach in semanticSearch for one row: the results it pushes.
ScoreRowNoThreshold(queryEmbedding, row, threshold) ==
    IF row.embedding.kind = "null" \/ row.embedding.kind = "text" THEN << >>
    ELSE LET embedding == Arr(row.embedding.val)
         IN  IF Len(embedding.val) > 0
             THEN << Result(row.uuid, cosineSimilarity(queryEmbedding, embedding)) >>
             ELSE << >>

ScoreRow(queryEmbedding, row, threshold) ==
    IF row.embedding.kind = "null" THEN << >>           \* if (item.embedding)
    ELSE IF row.embedding.kind = "text" THEN << >>      \* JSON.parse throws: return
    ELSE LET embedding == Arr(row.embedding.val)        \* the array, parsed if a string
         IN  IF Len(embedding.val) > 0
             THEN LET similarity == cosineSimilarity(queryEmbedding, embedding)
                  IN  IF ScoreGE(similarity, threshold)
                      THEN << Result(row.uuid, similarity) >>
                      ELSE << >>
             ELSE << >>                                 \* 'Invalid embedding format'

RECURSIVE ScoreRows(_, _, _)
ScoreRows(queryEmbedding, data, threshold) ==
    IF data = << >> THEN << >>
    ELSE ScoreRow(queryEmbedding, Head(data), threshold)
            \o ScoreRows(queryEmbedding, Tail(data), threshold)

\* semanticSearch after the database read succeeded
SemanticRank(queryEmbedding, data, limit, threshold) ==
    Slice(SortByScore(ScoreRows(queryEmbedding, data, threshold)), limit)

\* keywordSearch: data.map(item => ({ id: item.uuid, ..., score: 0.8 }))
KeywordMap(data) == [i \in 1..Len(data) |-> Result(data[i].uuid, KeywordScore)]

\* self.findIndex(t => t.id === item.id), 1-based
FindIndex(self, id) == CHOOSE i \in 1..Len(self) :
                          /\ self[i].id = id
                          /\ \A j \in 1..(i - 1) : self[j].id # id

\* combined.filter((item, index, self) => index === self.findIndex(...))
RECURSIVE UniqueFrom(_, _)
UniqueFrom(self, index) ==
    IF index > Len(self) THEN << >>
    ELSE (IF index = FindIndex(self, self[index].id) THEN << self[index] >> ELSE << >>)
            \o UniqueFrom(self, index + 1)

\* the hybrid branch of search after both passes returned
HybridMergeKeywordFirst(semanticResults, keywordResults, limit) ==
    Slice(UniqueFrom(keywordResults \o semanticResults, 1), limit)

HybridMergeKeywordDropped(semanticResults, keywordResults, limit) ==
    Slice(UniqueFrom(semanticResults, 1), limit)

HybridMerge(semanticResults, keywordResults, limit) ==
    LET combined == semanticResults \o keywordResults
        unique == UniqueFrom(combined, 1)
    IN  Slice(unique, limit)

\* ------------------------------------------------------------ error texts
\* Error messages are kept as sequences of words.
FetchFailedMessage == << "fetch", "failed" >>                   \* TypeError of fetch: DNS or connection failure
AbortMessage == << "This", "operation", "was", "aborted" >>     \* AbortError after controller.abort()
TerminatedMessage == << "terminated" >>                         \* TypeError: connection lost while reading the body
JsonSyntaxMessage == << "Unexpected", "token" >>                \* SyntaxError of response.json()
NoDataMessage == << "Cannot", "read", "properties", "of", "undefined" >>  \* data.data[0] missing

\* new Error(`OpenAI API error: ${response.status} - ${errorText}`)
HttpErrorMessage(status, errorText) ==
    << "OpenAI", "API", "error:", status, "-" >> \o errorText

\* non-2xx replies of the provider: status and response text
HttpErrors == { [status |-> "401", text |-> << "invalid_api_key" >>],
                [status |-> "429", text |-> << "rate_limit_exceeded" >>],
                [status |-> "502", text |-> << "upstream", "getaddrinfo", "EAI_AGAIN" >>] }

\* the catch block of generateEmbedding: retry or give up
ShouldRetry(attempt, message) ==
    /\ attempt < maxRetries
    /\ \/ Includes(message, << "EAI_AGAIN" >>)
       \/ Includes(message, << "fetch", "failed" >>)
       \/ Includes(message, << "getaddrinfo" >>)

\* ------------------------------------------------------------ input domains
Ids == << "A", "B", "C" >>                       \* uuids, in table order
CompanyOf == [A |-> 1, B |-> 1, C |-> 2]
EmbeddingValues == { EmbNull, Arr(<< 1, 0 >>), Arr(<< 1, 1 >>), Json(<< 0, 1 >>) }
EmbeddingsOf == [A |-> EmbeddingValues, B |-> EmbeddingValues, C |-> { EmbNull, Arr(<< 1, 0 >>) }]
\* what the provider returns for the query: a vector of the stored dimension,
\* or one of another dimension
QueryVectors == { << 1, 0 >>, << 1 >> }
Queries == { << >>, << "q" >> }                  \* the empty string and a non-empty one
Thresholds == { Score(0, 1), Score(9, 100), Score(-1, 1) }   \* 0, 0.9, -1
Types == { "semantic", "keyword", "hybrid" }
Companies == { << "1" >>, << "0" >> }             \* company_uuid of a request body: "1", "0"

Row(id, e) == [uuid |-> id, company_id |-> CompanyOf[id], embedding |-> e]

Stores == { [i \in 1..Len(Ids) |-> Row(Ids[i], f[i])] :
                f \in { g \in [1..Len(Ids) -> EmbeddingValues] :
                            \A i \in 1..Len(Ids) : g[i] \in EmbeddingsOf[Ids[i]] } }

\* an option of the options object: present with value v, or omitted
Opt(v) == [set |-> TRUE, v |-> v]
NoInt == [set |-> FALSE, v |-> 0]
NoScore == [set |-> FALSE, v |-> Zero]
NoType == [set |-> FALSE, v |-> ""]
NoString == [set |-> FALSE, v |-> << >>]

NoOptions == [limit |-> NoInt, threshold |-> NoScore, type |-> NoType, company_id |-> NoInt]

\* request bodies of POST /api/knowledge/search
Bodies == [ query : Queries,
            limit : { NoInt } \cup { Opt(n) : n \in 0..MaxLimit },
            threshold : { NoScore } \cup { Opt(t) : t \in Thresholds },
            type : { NoType } \cup { Opt(t) : t \in Types },
            company_uuid : { NoString } \cup { Opt(c) : c \in Companies } ]

\* KnowledgeController.search: the options it passes to search
\*   const { query, limit = '5', threshold = '0.7', type = 'hybrid', company_uuid } = req.body
\* parseInt and parseFloat of a JSON number are that number; company_uuid is a
\* string: company_uuid ? parseInt(company_uuid) : undefined
ControllerOptions(body) ==
    [ limit |-> IF body.limit.set THEN body.limit ELSE Opt(5),
      threshold |-> IF body.threshold.set THEN body.threshold ELSE Opt(Score(7, 100)),
      type |-> IF body.type.set THEN body.type ELSE Opt("hybrid"),
      company_id |-> IF body.company_uuid.set /\ body.company_uuid.v # << >>
                     THEN Opt(ParseInt(body.company_uuid.v)) ELSE NoInt ]

\* AIService.generateResponse: search(message, { limit: 3, type: 'hybrid' })
AIOptions == [ limit |-> Opt(AILimit), threshold |-> NoScore,
               type |-> Opt("hybrid"), company_id |-> NoInt ]

\* search: the locals computed from options
LimitOf(o) == IF o.limit.set /\ o.limit.v # 0 THEN o.limit.v ELSE DefaultLimit
ThresholdOf(o) == IF o.threshold.set /\ Truthy(o.threshold.v) THEN o.threshold.v ELSE DefaultThreshold
TypeOf(o) == IF o.type.set /\ o.type.v # "" THEN o.type.v ELSE "hybrid"

\* both passes run with the whole limit
PassLimitUncapped(o) == LimitOf(o)

\* the limit search passes to semanticSearch and to keywordSearch
PassLimit(o) == IF TypeOf(o) = "hybrid" THEN Ceil2(LimitOf(o)) ELSE LimitOf(o)

\* .eq('company_id', companyId) under if (companyId)
CompanyFilter(o, row) == (o.company_id.set /\ o.company_id.v # 0) => row.company_id = o.company_id.v

\* semanticSearch: select(...).not('embedding', 'is', null) [.eq('company_id', companyId)]
SemanticQuery(table, o) ==
    SelectSeq(table, LAMBDA row : row.embedding.kind # "null" /\ CompanyFilter(o, row))

\* sequences without repetition over a set, of length at most n
InjectiveSeqs(S, n) ==
    UNION { { q \in [1..k -> S] : \A i, j \in 1..k : i # j => q[i] # q[j] } : k \in 0..n }

\* keywordSearch: select(...).textSearch(...).limit(limit) [.eq('company_id', companyId)]
\* Which rows match the text and in which order they come back is the
\* database's choice: any duplicate-free list of at most limit eligible rows.
\* The rows carry the selected columns, of which the model keeps uuid.
KeywordQuery(table, limit, o) ==
    InjectiveSeqs({ [uuid |-> table[i].uuid] :
                        i \in { k \in 1..Len(table) : CompanyFilter(o, table[k]) } }, limit)

\* every list of rows a text search can return
KeywordReplies == InjectiveSeqs({ [uuid |-> Ids[i]] : i \in 1..Len(Ids) }, Len(Ids))

\* ------------------------------------------------------------------- state
VARIABLES
    store,            \* the knowledge_items table: rows in table order
    apiKey,           \* process.env.OPENAI_API_KEY is set
    pc,               \* where the request is waiting
    caller,           \* "controller" (KnowledgeController.search), "ai" (AIService.generateResponse)
    query,            \* the query string, a sequence of characters
    options,          \* the options object passed to search
    attempt,          \* generateEmbedding: the loop variable
    requests,         \* fetch calls issued by generateEmbedding in this request
    timerArmed,       \* the abort timer of the current attempt is pending
    provider,         \* "up", or "hung": it will send nothing more for this attempt
    httpResp,         \* the response whose body is being read
    queryEmbedding,   \* what generateEmbedding returned
    semanticResults,  \* what semanticSearch returned
    keywordResults,   \* what keywordSearch returned
    outcome,          \* how the request ended
    dbQueries,        \* database queries issued in this request
    dbErrors,         \* database queries of this request that reported an error
    semReply,         \* { data, error } of the read of semanticSearch
    kwReply,          \* { data, error } of the text search of keywordSearch
    op,               \* the item request in progress (create, update, delete)
    passed,           \* uuids of the items sent to generateEmbedding with non-empty content
    vecA,             \* cosineSimilarity: the argument a
    vecB,             \* cosineSimilarity: the argument b
    similarity,       \* cosineSimilarity: the value returned
    conversations,    \* the vezlo_conversations table: uuid -> row
    messages,         \* the vezlo_messages table: a set of rows
    messageUuids,     \* number of uuids issued for messages
    activeConversations, \* ChatManager.activeConversations: threadId -> ChatConversation
    http,             \* the ChatController requests in flight, by slot
    call,             \* the ChatManager call in progress
    started,          \* requests and calls started so far
    quiet             \* so far only createUserMessage and generateResponse ran, answered 200

vars == << store, apiKey, pc, caller, query, options, attempt, requests, timerArmed,
           provider, httpResp, queryEmbedding, semanticResults, keywordResults,
           outcome, dbQueries, dbErrors, semReply, kwReply, op, passed,
           vecA, vecB, similarity,
           conversations, messages, messageUuids, activeConversations, http, call,
           started, quiet >>

\* the state of the chat: storage, ChatManager, requests and calls
chatVars == << conversations, messages, messageUuids, activeConversations, http, call,
              started, quiet >>

\* the state of a comparison of two vectors
cosineVars == << vecA, vecB, similarity >>

NoResp == [ok |-> FALSE, status |-> ""]

\* const { data, error } = await this.supabase.from(...)...: a reply of the database
NoReply == [state |-> "none", data |-> << >>]
ErrorReply == [state |-> "error", data |-> << >>]
DataReply(data) == [state |-> "data", data |-> data]

\* content of an item or of a request: a string, or undefined / NULL
NoContent == [set |-> FALSE, v |-> ""]

\* the item request in progress: insertData / updateData as far as the model
\* keeps them, and whether generateEmbedding was called
ItemOp(kind, uuid, type, content, embedCalled) ==
    [kind |-> kind, uuid |-> uuid, type |-> type, content |-> content,
     file_url |-> FALSE, embedding |-> EmbNull, embedCalled |-> embedCalled]

NoOp == ItemOp("none", "", "", NoContent, FALSE)
NoOutcome == [status |-> "none", results |-> << >>]

\* cosineSimilarity has not been called
NotCompared == [k |-> "none", neg |-> FALSE, m |-> 0, e |-> 0]
NoComparison == vecA = EmbNull /\ vecB = EmbNull /\ similarity = NotCompared

\* ------------------------------------------------------------ chat: values
\* uuids of the rows of vezlo_conversations, in the order the database issues them
ConvIds == << "c1", "c2" >>
\* the threadId ChatManager.createConversation makes up for the conversation
\* that is stored under the uuid
LocalThread == [c1 |-> "t1", c2 |-> "t2"]
ThreadIds == { "c1", "c2", "t1", "t2" }
HttpSlots == { 1, 2 }                          \* HTTP requests that can be in flight together

\* a row of vezlo_conversations, as far as the model keeps it
NoRow == [state |-> "none", message_count |-> 0]
StoredRow(n) == [state |-> "stored", message_count |-> n]
DeletedRow == [state |-> "deleted", message_count |-> 0]

\* a ChatConversation object: id, messageCount, and whether its updatedAt is
\* older than the conversation timeout
NoConversation == [present |-> FALSE, id |-> "", messageCount |-> 0, expired |-> FALSE]
Conversation(id, n) == [present |-> TRUE, id |-> id, messageCount |-> n, expired |-> FALSE]

\* an HTTP request handled by ChatController
NoRequest == [kind |-> "none", pc |-> "idle", conv |-> "", msg |-> 0, count |-> 0,
              status |-> 0, deleted |-> FALSE, aiFailed |-> FALSE]

\* a call of a ChatManager method
NoCall == [kind |-> "none", pc |-> "idle", threadId |-> "", conversation |-> NoConversation,
           countBefore |-> 0, userSave |-> "none", userMessage |-> 0, ai |-> "none",
           assistantMessage |-> 0,
           result |-> "none"]

\* no conversation, no message, no request
NoChat ==
    /\ conversations = [c \in { "c1", "c2" } |-> NoRow]
    /\ messages = { }
    /\ messageUuids = 0
    /\ activeConversations = [t \in ThreadIds |-> NoConversation]
    /\ http = [s \in HttpSlots |-> NoRequest]
    /\ call = NoCall
    /\ started = 0
    /\ quiet = TRUE

Ok(results) == [status |-> "ok", results |-> results]
Raised == [status |-> "raised", results |-> << >>]       \* 'Failed to search knowledge items'
Invalid == [status |-> "invalid", results |-> << >>]     \* 400 'query is required'

Returned(results) == [raised |-> FALSE, results |-> results]
Thrown == [raised |-> TRUE, results |-> << >>]

Init ==
    /\ store \in Stores
    /\ apiKey \in BOOLEAN
    /\ pc = "idle"
    /\ caller = "none"
    /\ query = << >>
    /\ options = NoOptions
    /\ attempt = 0
    /\ requests = 0
    /\ timerArmed = FALSE
    /\ provider = "up"
    /\ httpResp = NoResp
    /\ queryEmbedding = EmbNull
    /\ semanticResults = << >>
    /\ keywordResults = << >>
    /\ outcome = NoOutcome
    /\ dbQueries = 0
    /\ dbErrors = 0
    /\ semReply = NoReply
    /\ kwReply = NoReply
    /\ op = NoOp
    /\ passed = { }
    /\ NoComparison
    /\ NoChat

\* ------------------------------------------------- the code between awaits
\* semanticSearch: catch (error) { console.error(...); return []; }
SemanticOnErrorRethrow == Thrown

SemanticOnError == Returned(<< >>)

\* keywordSearch: catch (error) { return []; }
KeywordOnErrorRethrow == Thrown

KeywordOnError == Returned(<< >>)

\* search resumes with the value of semanticSearch; db queries issued so far
AfterSemantic(o, sem, db) ==
    /\ semanticResults' = sem.results
    /\ keywordResults' = << >>
    /\ IF sem.raised
       THEN /\ pc' = "done"                 \* catch of search: throw new Error(...)
            /\ outcome' = Raised
            /\ dbQueries' = db
       ELSE IF TypeOf(o) = "semantic"
       THEN /\ pc' = "done"
            /\ outcome' = Ok(sem.results)
            /\ dbQueries' = db
       ELSE /\ pc' = "kwQuery"              \* hybrid: keywordSearch issues its query
            /\ outcome' = NoOutcome
            /\ dbQueries' = db + 1

\* semanticSearch resumes with the value e of generateEmbedding
AfterEmbedding(o, e, reqs) ==
    /\ queryEmbedding' = e
    /\ attempt' = 0
    /\ requests' = reqs
    /\ timerArmed' = FALSE
    /\ provider' = "up"
    /\ httpResp' = NoResp
    /\ IF e.kind = "null"
       THEN AfterSemantic(o, Returned(<< >>), 0)      \* if (!queryEmbedding) return []
       ELSE /\ pc' = "semQuery"
            /\ dbQueries' = 1
            /\ semanticResults' = << >>
            /\ keywordResults' = << >>
            /\ outcome' = NoOutcome

\* generateEmbedding answering from an embedding kept from an earlier call
StartAttemptCached(o, n, reqs) == AfterEmbedding(o, Arr(<< 1, 0 >>), reqs)

\* generateEmbedding: iteration n of for (attempt = 1; attempt <= maxRetries; attempt++)
StartAttempt(o, n, reqs) ==
    IF n > maxRetries THEN AfterEmbedding(o, EmbNull, reqs)          \* return null after the loop
    ELSE IF ~apiKey THEN AfterEmbedding(o, EmbNull, reqs)            \* OPENAI_API_KEY is not set
    ELSE /\ attempt' = n
         /\ requests' = reqs + 1                                     \* fetch(...)
         /\ timerArmed' = TRUE                                       \* setTimeout(abort, 30000)
         /\ provider' = "up"
         /\ httpResp' = NoResp
         /\ queryEmbedding' = EmbNull
         /\ pc' = "fetch"
         /\ UNCHANGED << semanticResults, keywordResults, outcome, dbQueries >>

\* generateEmbedding: the catch block, entered with an error of the given message
HandleFailure(o, message) ==
    IF ShouldRetry(attempt, message)
    THEN /\ pc' = "sleep"                                            \* await setTimeout(retryDelay)
         /\ timerArmed' = FALSE
         /\ provider' = "up"
         /\ httpResp' = NoResp
         /\ UNCHANGED << attempt, requests, queryEmbedding,
                         semanticResults, keywordResults, outcome, dbQueries >>
    ELSE AfterEmbedding(o, EmbNull, requests)                        \* return null

\* search(query, options) up to its first await
Search(o) ==
    IF TypeOf(o) = "keyword"
    THEN /\ pc' = "kwQuery"
         /\ dbQueries' = 1
         /\ UNCHANGED << attempt, requests, timerArmed, provider, httpResp,
                         queryEmbedding, semanticResults, keywordResults, outcome >>
    ELSE StartAttempt(o, 1, 0)

\* ----------------------------------------------------------------- actions
\* POST /api/knowledge/search handled by KnowledgeController.search
ControllerSearch(body) ==
    /\ UNCHANGED << dbErrors, semReply, kwReply, op, passed >>
    /\ pc = "idle"
    /\ caller' = "controller"
    /\ query' = body.query
    /\ IF body.query = << >>                          \* if (!query) 400
       THEN /\ options' = NoOptions
            /\ pc' = "done"
            /\ outcome' = Invalid
            /\ UNCHANGED << attempt, requests, timerArmed, provider, httpResp,
                            queryEmbedding, semanticResults, keywordResults, dbQueries >>
       ELSE /\ options' = ControllerOptions(body)
            /\ Search(ControllerOptions(body))
    /\ UNCHANGED << chatVars, cosineVars, store, apiKey >>

\* AIService.generateResponse(message) with a knowledge base configured
AIGenerateResponse(message) ==
    /\ UNCHANGED << dbErrors, semReply, kwReply, op, passed >>
    /\ pc = "idle"
    /\ caller' = "ai"
    /\ query' = message
    /\ options' = AIOptions
    /\ Search(AIOptions)
    /\ UNCHANGED << chatVars, cosineVars, store, apiKey >>

\* fetch rejects: DNS resolution or connection failure
FetchRejects ==
    /\ UNCHANGED << dbErrors, semReply, kwReply, op, passed >>
    /\ pc = "fetch"
    /\ provider = "up"
    /\ HandleFailure(options, FetchFailedMessage)
    /\ UNCHANGED << chatVars, cosineVars, store, apiKey, caller, query, options >>

\* 30 s pass before fetch settles: controller.abort(), fetch rejects with AbortError
FetchTimeout ==
    /\ UNCHANGED << dbErrors, semReply, kwReply, op, passed >>
    /\ pc = "fetch"
    /\ timerArmed
    /\ HandleFailure(options, AbortMessage)
    /\ UNCHANGED << chatVars, cosineVars, store, apiKey, caller, query, options >>

\* fetch resolves with the response head; clearTimeout(timeoutId); the body is awaited
FetchResolves(ok, status) ==
    /\ UNCHANGED << dbErrors, semReply, kwReply, op, passed >>
    /\ pc = "fetch"
    /\ provider = "up"
    /\ pc' = "body"
    /\ timerArmed' = FALSE
    /\ httpResp' = [ok |-> ok, status |-> status]
    /\ UNCHANGED << chatVars, cosineVars, store, apiKey, caller, query, options, attempt, requests, provider,
                    queryEmbedding, semanticResults, keywordResults, outcome, dbQueries >>

\* the provider stops sending while the request or the body is outstanding
ProviderHangs ==
    /\ UNCHANGED << dbErrors, semReply, kwReply, op, passed >>
    /\ pc \in { "fetch", "body" }
    /\ provider = "up"
    /\ provider' = "hung"
    /\ UNCHANGED << chatVars, cosineVars, store, apiKey, pc, caller, query, options, attempt, requests, timerArmed,
                    httpResp, queryEmbedding, semanticResults, keywordResults, outcome, dbQueries >>

\* response.text() of a non-2xx response settles: throw new Error(`OpenAI API error: ...`)
ErrorBodyArrives(e) ==
    /\ UNCHANGED << dbErrors, semReply, kwReply, op, passed >>
    /\ pc = "body"
    /\ provider = "up"
    /\ ~httpResp.ok
    /\ e.status = httpResp.status
    /\ HandleFailure(options, HttpErrorMessage(httpResp.status, e.text))
    /\ UNCHANGED << chatVars, cosineVars, store, apiKey, caller, query, options >>

\* response.json() of a 2xx response settles with { data: [{ embedding }] }
EmbeddingArrives(v) ==
    /\ UNCHANGED << dbErrors, semReply, kwReply, op, passed >>
    /\ pc = "body"
    /\ provider = "up"
    /\ httpResp.ok
    /\ AfterEmbedding(options, Arr(v), requests)
    /\ UNCHANGED << chatVars, cosineVars, store, apiKey, caller, query, options >>

\* response.json() throws, data.data[0] is missing, or the connection is lost mid-body
BodyFails(message) ==
    /\ UNCHANGED << dbErrors, semReply, kwReply, op, passed >>
    /\ pc = "body"
    /\ provider = "up"
    /\ message = NoDataMessage => httpResp.ok
    /\ message = JsonSyntaxMessage => httpResp.ok
    /\ HandleFailure(options, message)
    /\ UNCHANGED << chatVars, cosineVars, store, apiKey, caller, query, options >>

\* the retry delay elapsed: continue, attempt++
RetryDelayElapsed ==
    /\ UNCHANGED << dbErrors, semReply, kwReply, op, passed >>
    /\ pc = "sleep"
    /\ StartAttempt(options, attempt + 1, requests)
    /\ UNCHANGED << chatVars, cosineVars, store, apiKey, caller, query, options >>

\* the database answers the read of semanticSearch
SemanticQueryReturns(error) ==
    /\ dbErrors' = IF error THEN dbErrors + 1 ELSE dbErrors
    /\ semReply' = IF error THEN ErrorReply ELSE DataReply(SemanticQuery(store, options))
    /\ UNCHANGED << kwReply, op, passed >>
    /\ pc = "semQuery"
    /\ IF error
       THEN AfterSemantic(options, SemanticOnError, dbQueries)
       ELSE AfterSemantic(options,
                Returned(SemanticRank(queryEmbedding, SemanticQuery(store, options),
                                      PassLimit(options),
                                      ThresholdOf(options))),
                dbQueries)
    /\ UNCHANGED << chatVars, cosineVars, store, apiKey, caller, query, options, attempt, requests, timerArmed,
                    provider, httpResp, queryEmbedding >>

\* search resumes with the value kw of keywordSearch
AfterKeyword(o, sem, kw) ==
    /\ keywordResults' = kw.results
    /\ pc' = "done"
    /\ outcome' = IF kw.raised THEN Raised
                  ELSE IF TypeOf(o) = "keyword" THEN Ok(kw.results)
                  ELSE Ok(HybridMerge(sem, kw.results, LimitOf(o)))

\* the database answers the text search of keywordSearch with an error
KeywordQueryFails ==
    /\ dbErrors' = dbErrors + 1
    /\ kwReply' = ErrorReply
    /\ UNCHANGED << semReply, op, passed >>
    /\ pc = "kwQuery"
    /\ AfterKeyword(options, semanticResults, KeywordOnError)
    /\ UNCHANGED << chatVars, cosineVars, store, apiKey, caller, query, options, attempt, requests, timerArmed,
                    provider, httpResp, queryEmbedding, semanticResults, dbQueries >>

\* the database answers the text search of keywordSearch with rows
KeywordQueryReturns(data) ==
    /\ kwReply' = DataReply(data)
    /\ UNCHANGED << dbErrors, semReply, op, passed >>
    /\ pc = "kwQuery"
    /\ data \in KeywordQuery(store, PassLimit(options), options)
    /\ AfterKeyword(options, semanticResults, Returned(KeywordMap(data)))
    /\ UNCHANGED << chatVars, cosineVars, store, apiKey, caller, query, options, attempt, requests, timerArmed,
                    provider, httpResp, queryEmbedding, semanticResults, dbQueries >>

\* the caller has its answer; the next request may start
Respond ==
    /\ pc = "done"
    /\ pc' = "idle"
    /\ caller' = "none"
    /\ query' = << >>
    /\ options' = NoOptions
    /\ attempt' = 0
    /\ requests' = 0
    /\ timerArmed' = FALSE
    /\ provider' = "up"
    /\ httpResp' = NoResp
    /\ queryEmbedding' = EmbNull
    /\ semanticResults' = << >>
    /\ keywordResults' = << >>
    /\ outcome' = NoOutcome
    /\ dbQueries' = 0
    /\ dbErrors' = 0
    /\ semReply' = NoReply
    /\ kwReply' = NoReply
    /\ op' = NoOp
    /\ UNCHANGED << chatVars, cosineVars, store, apiKey, passed >>

Next ==
    \/ \E body \in Bodies : ControllerSearch(body)
    \/ \E message \in Queries : AIGenerateResponse(message)
    \/ FetchRejects
    \/ FetchTimeout
    \/ FetchResolves(TRUE, "200")
    \/ \E e \in HttpErrors : FetchResolves(FALSE, e.status)
    \/ ProviderHangs
    \/ \E e \in HttpErrors : ErrorBodyArrives(e)
    \/ \E v \in QueryVectors : EmbeddingArrives(v)
    \/ \E m \in { JsonSyntaxMessage, NoDataMessage, TerminatedMessage } : BodyFails(m)
    \/ RetryDelayElapsed
    \/ \E error \in BOOLEAN : SemanticQueryReturns(error)
    \/ KeywordQueryFails
    \/ \E data \in KeywordReplies : KeywordQueryReturns(data)
    \/ Respond

Spec == Init /\ [][Next]_vars

\* ============================================================ the item store
\* KnowledgeController.createItem / updateItem / deleteItem and the methods of
\* KnowledgeBaseService they call.  The table starts empty.  A call of
\* generateEmbedding is one step here: the request waits at "itemEmbed" and
\* resumes with the value generateEmbedding returns.
validTypes == { "folder", "document", "file", "url", "url_directory" }
RequestTypes == validTypes \cup { "note" }
Contents == { "", "x", "y" }

\* the provider's model as a function of the input text
EmbeddingOf(text) ==
    IF text = "x" THEN << 1, 0 >> ELSE IF text = "y" THEN << 0, 1 >> ELSE << 1, 1 >>

\* what generateEmbedding(text) can return: null, the embedding of the text,
\* or a vector of another dimension
EmbeddingReplies(text) == { EmbNull, Arr(EmbeddingOf(text)), Arr(<< 1 >>) }
AllEmbeddingReplies == UNION { EmbeddingReplies(t) : t \in Contents }

\* request bodies of POST /api/knowledge/items; title, file_url and
\* created_by_uuid are kept as present or not
CreateBodies == [ title : BOOLEAN,
                  type : { NoType } \cup { Opt(t) : t \in RequestTypes },
                  content : { NoContent } \cup { Opt(c) : c \in Contents },
                  file_url : BOOLEAN,
                  created_by_uuid : BOOLEAN ]

\* !content, item.content &&: undefined and the empty string are falsy
HasContent(content) == content.set /\ content.v # ""

\* the columns of a row the model keeps
ItemRow(id, content, e) == [uuid |-> id, company_id |-> 1, content |-> content, embedding |-> e]

\* embedding vector(1536): a value of another dimension is rejected
DimensionOk(e) == e.kind = "null" \/ Len(e.val) = embeddingDimensions

Uuids(table) == { table[i].uuid : i \in 1..Len(table) }

\* uuid ... DEFAULT gen_random_uuid(): a uuid no row has
NewUuid(table) ==
    Ids[CHOOSE i \in 1..Len(Ids) :
            /\ Ids[i] \notin Uuids(table)
            /\ \A j \in 1..(i - 1) : Ids[j] \in Uuids(table)]

\* KnowledgeController.createItem without the check of file_url
CreateRejectedContentOnly(body) ==
    \/ ~body.title \/ ~body.type.set \/ ~body.created_by_uuid
    \/ body.type.v \notin validTypes
    \/ body.type.v = "document" /\ ~HasContent(body.content)

\* KnowledgeController.createItem: the validation of the request body
CreateRejected(body) ==
    \/ ~body.title \/ ~body.type.set \/ ~body.created_by_uuid
    \/ body.type.v \notin validTypes
    \/ body.type.v = "document" /\ ~HasContent(body.content)
    \/ body.type.v \in { "file", "url" } /\ ~body.file_url

\* KnowledgeBaseService.createItem: generateEmbedding is called
CreateEmbedsDocumentOnly(type, content) ==
    HasContent(content) /\ type = "document"

CreateEmbeds(type, content) ==
    HasContent(content) /\ type \in { "document", "file" }

\* KnowledgeBaseService.updateItem: generateEmbedding is called
UpdateEmbeds(content) == content.set

\* .update(updateData).eq('uuid', itemId) on the table
UpdateRows(table, request) ==
    [i \in 1..Len(table) |->
        IF table[i].uuid # request.uuid THEN table[i]
        ELSE [table[i] EXCEPT
                !.content = IF request.content.set THEN request.content ELSE @,
                !.embedding = IF request.embedding.kind # "null" THEN request.embedding ELSE @]]

InitItems ==
    /\ store = << >>
    /\ apiKey \in BOOLEAN
    /\ pc = "idle"
    /\ caller = "none"
    /\ query = << >>
    /\ options = NoOptions
    /\ attempt = 0
    /\ requests = 0
    /\ timerArmed = FALSE
    /\ provider = "up"
    /\ httpResp = NoResp
    /\ queryEmbedding = EmbNull
    /\ semanticResults = << >>
    /\ keywordResults = << >>
    /\ outcome = NoOutcome
    /\ dbQueries = 0
    /\ dbErrors = 0
    /\ semReply = NoReply
    /\ kwReply = NoReply
    /\ op = NoOp
    /\ passed = { }
    /\ NoComparison
    /\ NoChat

\* POST /api/knowledge/items handled by KnowledgeController.createItem, up to
\* the first await of KnowledgeBaseService.createItem
ControllerCreateItem(body) ==
    /\ pc = "idle"
    /\ caller' = "createItem"
    /\ IF CreateRejected(body)
       THEN /\ pc' = "done"                                  \* 400
            /\ outcome' = Invalid
            /\ op' = [ItemOp("create", "", body.type.v, body.content, FALSE)
                        EXCEPT !.file_url = body.file_url]
       ELSE /\ Len(store) < MaxItems
            /\ outcome' = NoOutcome
            /\ op' = [ItemOp("create", "", body.type.v, body.content,
                             CreateEmbeds(body.type.v, body.content))
                        EXCEPT !.file_url = body.file_url]
            /\ pc' = IF CreateEmbeds(body.type.v, body.content)
                     THEN "itemEmbed"                        \* await generateEmbedding(item.content)
                     ELSE "itemWrite"                        \* await ...insert(insertData)
    /\ UNCHANGED << chatVars, cosineVars, store, apiKey, query, options, attempt, requests, timerArmed, provider,
                    httpResp, queryEmbedding, semanticResults, keywordResults,
                    dbQueries, dbErrors, semReply, kwReply, passed >>

\* PUT /api/knowledge/items/:uuid handled by KnowledgeController.updateItem, up
\* to the first await of KnowledgeBaseService.updateItem
ControllerUpdateItem(uuid, content) ==
    /\ pc = "idle"
    /\ caller' = "updateItem"
    /\ outcome' = NoOutcome
    /\ op' = ItemOp("update", uuid, "", content, UpdateEmbeds(content))
    /\ pc' = IF UpdateEmbeds(content)
             THEN "itemEmbed"                                \* await generateEmbedding(updates.content)
             ELSE "itemWrite"                                \* await ...update(updateData)
    /\ UNCHANGED << chatVars, cosineVars, store, apiKey, query, options, attempt, requests, timerArmed, provider,
                    httpResp, queryEmbedding, semanticResults, keywordResults,
                    dbQueries, dbErrors, semReply, kwReply, passed >>

\* DELETE /api/knowledge/items/:uuid handled by KnowledgeController.deleteItem
ControllerDeleteItem(uuid) ==
    /\ pc = "idle"
    /\ caller' = "deleteItem"
    /\ outcome' = NoOutcome
    /\ op' = ItemOp("delete", uuid, "", NoContent, FALSE)
    /\ pc' = "itemWrite"                                     \* await ...delete().eq('uuid', itemId)
    /\ UNCHANGED << chatVars, cosineVars, store, apiKey, query, options, attempt, requests, timerArmed, provider,
                    httpResp, queryEmbedding, semanticResults, keywordResults,
                    dbQueries, dbErrors, semReply, kwReply, passed >>

\* generateEmbedding returns e to createItem or updateItem:
\* if (embedding) insertData.embedding = embedding, then the write is issued
ItemEmbeddingReturns(e) ==
    /\ pc = "itemEmbed"
    /\ e \in EmbeddingReplies(op.content.v)
    /\ e.kind # "null" => apiKey
    /\ op' = [op EXCEPT !.embedding = e]
    /\ pc' = "itemWrite"
    /\ passed' = IF op.kind = "update" /\ op.content.v # "" /\ op.uuid \in Uuids(store)
                 THEN passed \cup { op.uuid } ELSE passed
    /\ UNCHANGED << chatVars, cosineVars, store, apiKey, caller, query, options, attempt, requests, timerArmed,
                    provider, httpResp, queryEmbedding, semanticResults, keywordResults,
                    outcome, dbQueries, dbErrors, semReply, kwReply >>

\* the database answers the insert of createItem
InsertReturns(error) ==
    /\ pc = "itemWrite"
    /\ op.kind = "create"
    /\ ~DimensionOk(op.embedding) => error
    /\ pc' = "done"
    /\ IF error
       THEN /\ outcome' = Raised                             \* 'Failed to create knowledge item'
            /\ UNCHANGED << store, op, passed >>
       ELSE /\ outcome' = Ok(<< >>)
            /\ store' = Append(store, ItemRow(NewUuid(store), op.content, op.embedding))
            /\ op' = [op EXCEPT !.uuid = NewUuid(store)]     \* return data.uuid
            /\ passed' = IF op.embedCalled THEN passed \cup { NewUuid(store) } ELSE passed
    /\ UNCHANGED << chatVars, cosineVars, apiKey, caller, query, options, attempt, requests, timerArmed,
                    provider, httpResp, queryEmbedding, semanticResults, keywordResults,
                    dbQueries, dbErrors, semReply, kwReply >>

\* the database answers the update of updateItem
UpdateReturns(error) ==
    /\ pc = "itemWrite"
    /\ op.kind = "update"
    /\ ( ~DimensionOk(op.embedding) /\ op.uuid \in Uuids(store) ) => error
    /\ pc' = "done"
    /\ IF error
       THEN /\ outcome' = Raised                             \* 'Failed to update knowledge item'
            /\ UNCHANGED store
       ELSE /\ outcome' = Ok(<< >>)                          \* return true
            /\ store' = UpdateRows(store, op)
    /\ UNCHANGED << chatVars, cosineVars, apiKey, caller, query, options, attempt, requests, timerArmed,
                    provider, httpResp, queryEmbedding, semanticResults, keywordResults,
                    dbQueries, dbErrors, semReply, kwReply, op, passed >>

\* the database answers the delete of deleteItem
DeleteReturns(error) ==
    /\ pc = "itemWrite"
    /\ op.kind = "delete"
    /\ pc' = "done"
    /\ IF error
       THEN /\ outcome' = Raised                             \* 'Failed to delete knowledge item'
            /\ UNCHANGED << store, passed >>
       ELSE /\ outcome' = Ok(<< >>)                          \* return true
            /\ store' = SelectSeq(store, LAMBDA row : row.uuid # op.uuid)
            /\ passed' = passed \ { op.uuid }
    /\ UNCHANGED << chatVars, cosineVars, apiKey, caller, query, options, attempt, requests, timerArmed,
                    provider, httpResp, queryEmbedding, semanticResults, keywordResults,
                    dbQueries, dbErrors, semReply, kwReply, op >>

NextItems ==
    \/ \E body \in CreateBodies : ControllerCreateItem(body)
    \/ \E uuid \in { Ids[1], Ids[2], Ids[3] } :
          \E content \in { NoContent } \cup { Opt(c) : c \in Contents } :
             ControllerUpdateItem(uuid, content)
    \/ \E uuid \in { Ids[1], Ids[2], Ids[3] } : ControllerDeleteItem(uuid)
    \/ \E e \in AllEmbeddingReplies : ItemEmbeddingReturns(e)
    \/ \E error \in BOOLEAN : InsertReturns(error)
    \/ \E error \in BOOLEAN : UpdateReturns(error)
    \/ \E error \in BOOLEAN : DeleteReturns(error)
    \/ Respond

SpecItems == InitItems /\ [][NextItems]_vars

\* ------------------------------------------- cosineSimilarity on doubles
\* JavaScript numbers are IEEE 754 doubles: 53 significant bits, exponents up
\* to 1023, round to nearest with ties to even, gradual underflow, overflow to
\* Infinity.  The same arithmetic is kept with MantissaBits significant bits
\* and exponents up to MaxExponent.  A finite number is m * 2^e with
\* m < 2^MantissaBits, and m >= 2^(MantissaBits - 1) unless e = MinUlp.
MinUlp == 2 - MaxExponent - MantissaBits       \* Number.MIN_VALUE is 2^MinUlp
MaxUlp == 1 + MaxExponent - MantissaBits       \* Number.MAX_VALUE is (2^MantissaBits - 1) * 2^MaxUlp

Num(neg, m, e) == [k |-> "num", neg |-> neg, m |-> m, e |-> e]
Infinity(neg) == [k |-> "inf", neg |-> neg, m |-> 0, e |-> 0]
NaN == [k |-> "nan", neg |-> FALSE, m |-> 0, e |-> 0]
FlZero == Num(FALSE, 0, MinUlp)
IsZero(x) == x.k = "num" /\ x.m = 0            \* x === 0

\* the number nearest to q * 2^e, for q = n / d at least 1/2 ulp short of 2^MantissaBits
RoundQuotient(neg, n, d, e) ==
    LET q == n \div d
        r == n % d
        up == 2 * r > d \/ ( 2 * r = d /\ q % 2 = 1 )
        m == IF up THEN q + 1 ELSE q
    IN  IF m = 0 THEN FlZero
        ELSE IF m = 2 ^ MantissaBits
             THEN IF e + 1 > MaxUlp THEN Infinity(neg)
                  ELSE Num(neg, 2 ^ (MantissaBits - 1), e + 1)
        ELSE IF e > MaxUlp THEN Infinity(neg)
        ELSE Num(neg, m, e)

\* the number nearest to (n / d) * 2^e, where e >= MinUlp; the exponent is
\* raised or lowered until the quotient has MantissaBits bits
RECURSIVE Normalize(_, _, _, _)
Normalize(neg, n, d, e) ==
    IF n >= d * 2 ^ MantissaBits THEN Normalize(neg, n, 2 * d, e + 1)
    ELSE IF n < d * 2 ^ (MantissaBits - 1) /\ e > MinUlp THEN Normalize(neg, 2 * n, d, e - 1)
    ELSE RoundQuotient(neg, n, d, e)

\* the number nearest to the real (n / d) * 2^x, for n >= 0 and d > 0
Round(neg, n, d, x) ==
    IF n = 0 THEN FlZero
    ELSE IF x < MinUlp THEN Normalize(neg, n, d * 2 ^ (MinUlp - x), MinUlp)
    ELSE Normalize(neg, n, d, x)

FromInt(i) == Round(i < 0, IF i < 0 THEN -i ELSE i, 1, 0)
FlOne == FromInt(1)

\* x * y
FlMul(x, y) ==
    IF x.k = "nan" \/ y.k = "nan" THEN NaN
    ELSE IF x.k = "inf" \/ y.k = "inf"
         THEN IF IsZero(x) \/ IsZero(y) THEN NaN ELSE Infinity(x.neg # y.neg)
    ELSE Round(x.neg # y.neg, x.m * y.m, 1, x.e + y.e)

\* x + y
FlAdd(x, y) ==
    IF x.k = "nan" \/ y.k = "nan" THEN NaN
    ELSE IF x.k = "inf" /\ y.k = "inf" THEN IF x.neg = y.neg THEN x ELSE NaN
    ELSE IF x.k = "inf" THEN x
    ELSE IF y.k = "inf" THEN y
    ELSE LET e == Min(x.e, y.e)
             sx == x.m * 2 ^ (x.e - e)
             sy == y.m * 2 ^ (y.e - e)
             s == (IF x.neg THEN -sx ELSE sx) + (IF y.neg THEN -sy ELSE sy)
         IN  Round(s < 0, IF s < 0 THEN -s ELSE s, 1, e)

\* x / y
FlDiv(x, y) ==
    IF x.k = "nan" \/ y.k = "nan" THEN NaN
    ELSE IF x.k = "inf" THEN IF y.k = "inf" THEN NaN ELSE Infinity(x.neg # y.neg)
    ELSE IF y.k = "inf" THEN FlZero
    ELSE IF IsZero(y) THEN IF IsZero(x) THEN NaN ELSE Infinity(x.neg # y.neg)
    ELSE Round(x.neg # y.neg, x.m, y.m, x.e - y.e)

\* the integer part of the square root of n < 4^MantissaBits
ISqrt(n) == CHOOSE r \in 0..(2 ^ MantissaBits) : r * r <= n /\ n < (r + 1) * (r + 1)

\* the number nearest to sqrt(m * 2^e) for even e: m is scaled by 4 until its
\* root has MantissaBits bits; n > r^2 + r exactly when sqrt(n) > r + 1/2
RECURSIVE SqrtScaled(_, _)
SqrtScaled(m, e) ==
    IF m < 4 ^ (MantissaBits - 1) THEN SqrtScaled(4 * m, e - 2)
    ELSE LET r == ISqrt(m)
         IN  Round(FALSE, IF m > r * r + r THEN r + 1 ELSE r, 1, e \div 2)

\* Math.sqrt(x)
FlSqrt(x) ==
    IF x.k = "nan" THEN NaN
    ELSE IF IsZero(x) THEN FlZero
    ELSE IF x.neg THEN NaN
    ELSE IF x.k = "inf" THEN x
    ELSE IF x.e % 2 = 0 THEN SqrtScaled(x.m, x.e)
    ELSE SqrtScaled(2 * x.m, x.e - 1)

\* x >= y for numbers that are not NaN (a comparison with NaN is false)
FlGE(x, y) ==
    /\ x.k # "nan" /\ y.k # "nan"
    /\ IsZero(FlAdd(x, [y EXCEPT !.neg = ~y.neg])) \/ ~FlAdd(x, [y EXCEPT !.neg = ~y.neg]).neg

\* b[i] as an operand of *: undefined beyond the end of b becomes NaN
Operand(b, i) == IF i <= Len(b) THEN b[i] ELSE NaN

\* a.reduce((sum, val, i) => sum + val * b[i], 0), the first k steps
RECURSIVE ReduceDot(_, _, _)
ReduceDot(a, b, k) ==
    IF k = 0 THEN FlZero
    ELSE FlAdd(ReduceDot(a, b, k - 1), FlMul(a[k], Operand(b, k)))

\* cosineSimilarity without the comparison of the lengths
cosineSimilarityAnyLength(a, b) ==
    IF a.kind # "array" \/ b.kind # "array" THEN FlZero
    ELSE IF Len(a.val) = 0 THEN FlZero
    ELSE LET dotProduct == ReduceDot(a.val, b.val, Len(a.val))
             magnitudeA == FlSqrt(ReduceDot(a.val, a.val, Len(a.val)))
             magnitudeB == FlSqrt(ReduceDot(b.val, b.val, Len(b.val)))
         IN  IF IsZero(magnitudeA) \/ IsZero(magnitudeB) THEN FlZero
             ELSE FlDiv(dotProduct, FlMul(magnitudeA, magnitudeB))

\* cosineSimilarity dividing by the magnitude of a alone
cosineSimilarityByOneMagnitude(a, b) ==
    IF a.kind # "array" \/ b.kind # "array" THEN FlZero
    ELSE IF Len(a.val) # Len(b.val) THEN FlZero
    ELSE IF Len(a.val) = 0 THEN FlZero
    ELSE LET dotProduct == ReduceDot(a.val, b.val, Len(a.val))
             magnitudeA == FlSqrt(ReduceDot(a.val, a.val, Len(a.val)))
             magnitudeB == FlSqrt(ReduceDot(b.val, b.val, Len(b.val)))
         IN  IF IsZero(magnitudeA) \/ IsZero(magnitudeB) THEN FlZero
             ELSE FlDiv(dotProduct, magnitudeA)

\* cosineSimilarity(a, b) as the engine computes it
cosineSimilarityDouble(a, b) ==
    IF a.kind # "array" \/ b.kind # "array" THEN FlZero
    ELSE IF Len(a.val) # Len(b.val) THEN FlZero
    ELSE IF Len(a.val) = 0 THEN FlZero
    ELSE LET dotProduct == ReduceDot(a.val, b.val, Len(a.val))
             magnitudeA == FlSqrt(ReduceDot(a.val, a.val, Len(a.val)))
             magnitudeB == FlSqrt(ReduceDot(b.val, b.val, Len(b.val)))
         IN  IF IsZero(magnitudeA) \/ IsZero(magnitudeB) THEN FlZero
             ELSE FlDiv(dotProduct, FlMul(magnitudeA, magnitudeB))

\* components of the vectors compared: small integers, the smallest positive
\* number, the root of the largest number and a power of two whose square
\* overflows
Tiny == Num(FALSE, 1, MinUlp)
MaxValue == Num(FALSE, 2 ^ MantissaBits - 1, MaxUlp)
Big == FlSqrt(MaxValue)
Huge == Num(FALSE, 2 ^ (MantissaBits - 1), MaxUlp)
Components == { FromInt(i) : i \in (-1)..MaxComponent } \cup { Tiny, Big, Huge }

\* the values passed as a or b: undefined, a string, arrays of 0 to MaxDim numbers
Vectors == UNION { [1..n -> Components] : n \in 0..MaxDim }
Arguments == { EmbNull, Json(<< >>) } \cup { Arr(v) : v \in Vectors }

InitCosine ==
    /\ store = << >>
    /\ apiKey = TRUE
    /\ pc = "idle"
    /\ caller = "none"
    /\ query = << >>
    /\ options = NoOptions
    /\ attempt = 0
    /\ requests = 0
    /\ timerArmed = FALSE
    /\ provider = "up"
    /\ httpResp = NoResp
    /\ queryEmbedding = EmbNull
    /\ semanticResults = << >>
    /\ keywordResults = << >>
    /\ outcome = NoOutcome
    /\ dbQueries = 0
    /\ dbErrors = 0
    /\ semReply = NoReply
    /\ kwReply = NoReply
    /\ op = NoOp
    /\ passed = { }
    /\ vecA \in Arguments
    /\ vecB \in Arguments
    /\ similarity = NotCompared
    /\ NoChat

\* the call cosineSimilarity(vecA, vecB) and its return
Compare ==
    /\ similarity = NotCompared
    /\ similarity' = cosineSimilarityDouble(vecA, vecB)
    /\ UNCHANGED << chatVars, vecA, vecB, store, apiKey, pc, caller, query, options, attempt,
                    requests, timerArmed, provider, httpResp, queryEmbedding,
                    semanticResults, keywordResults, outcome, dbQueries, dbErrors,
                    semReply, kwReply, op, passed >>

NextCosine == Compare

SpecCosine == InitCosine /\ [][NextCosine]_vars

\* ------------------------------------------------- chat: storage and cache
\* ChatController (createUserMessage, generateResponse, deleteConversation)
\* works on the storage directly; ChatManager (sendMessage, getConversation,
\* deleteConversation, cleanupExpiredConversations) keeps activeConversations
\* in front of it.  The server constructs ChatManager with storage,
\* enableConversationManagement: true and conversationTimeout: 3600000.
\* Requests of the controller run concurrently, one per slot; an action is
\* one turn of the event loop, and a statement sent to the database takes
\* effect in the turn that receives its reply.
ConvIdSet == { ConvIds[i] : i \in 1..Len(ConvIds) }

searchVars == << store, apiKey, pc, caller, query, options, attempt, requests, timerArmed,
                 provider, httpResp, queryEmbedding, semanticResults, keywordResults,
                 outcome, dbQueries, dbErrors, semReply, kwReply, op, passed >>

\* .eq('uuid', id).single() finds a row
IsStored(table, uuid) == uuid \in ConvIdSet /\ table[uuid].state = "stored"

\* uuid ... DEFAULT gen_random_uuid() of a new conversation
HasFreeConvId(table) == \E i \in 1..Len(ConvIds) : table[ConvIds[i]].state = "none"
NewConvId(table) ==
    ConvIds[CHOOSE i \in 1..Len(ConvIds) :
                /\ table[ConvIds[i]].state = "none"
                /\ \A j \in 1..(i - 1) : table[ConvIds[j]].state # "none"]

\* a row of vezlo_messages
Message(uuid, conversation, role, parent) ==
    [uuid |-> uuid, conversation |-> conversation, role |-> role, parent |-> parent]

MessagesOf(table, conversation) == { m \in table : m.conversation = conversation }

\* .delete().eq('uuid', id) on vezlo_conversations, and
\* conversation_id ... REFERENCES vezlo_conversations(id) ON DELETE CASCADE
DeleteRow(table, uuid) ==
    IF IsStored(table, uuid) THEN [table EXCEPT ![uuid] = DeletedRow] ELSE table
DeleteCascade(table, uuid) == { m \in table : m.conversation # uuid }

\* ConversationRepository.deleteConversation: if (error) throw ...; return true
DeleteConversationResult(found) == TRUE

\* res.status(...).json(...): the request is answered
Answered(r, status) == [r EXCEPT !.pc = "done", !.status = status, !.count = 0]

\* the request is handled in the first slot that holds no request in flight
SlotFree(s) ==
    /\ http[s].pc \in { "idle", "done" }
    /\ \A j \in HttpSlots : j < s => http[j].pc \notin { "idle", "done" }
CallFree == call.pc \in { "idle", "done" }

InitChat ==
    /\ store = << >>
    /\ apiKey = TRUE
    /\ pc = "idle"
    /\ caller = "none"
    /\ query = << >>
    /\ options = NoOptions
    /\ attempt = 0
    /\ requests = 0
    /\ timerArmed = FALSE
    /\ provider = "up"
    /\ httpResp = NoResp
    /\ queryEmbedding = EmbNull
    /\ semanticResults = << >>
    /\ keywordResults = << >>
    /\ outcome = NoOutcome
    /\ dbQueries = 0
    /\ dbErrors = 0
    /\ semReply = NoReply
    /\ kwReply = NoReply
    /\ op = NoOp
    /\ passed = { }
    /\ NoComparison
    /\ conversations \in { [c \in ConvIdSet |-> NoRow],
                           [c \in ConvIdSet |-> IF c = ConvIds[1] THEN StoredRow(0) ELSE NoRow] }
    /\ messages = { }
    /\ messageUuids = 0
    /\ activeConversations = [t \in ThreadIds |-> NoConversation]
    /\ http = [s \in HttpSlots |-> NoRequest]
    /\ call = NoCall
    /\ started = 0
    /\ quiet = TRUE

\* ------------------------------------------------ chat: ChatController
\* POST /api/conversations/:uuid/messages up to await storage.getConversation
CreateUserMessage(s, uuid, content) ==
    /\ started < MaxOps
    /\ SlotFree(s)
    /\ started' = started + 1
    /\ LET r == [NoRequest EXCEPT !.kind = "createUserMessage", !.conv = uuid]
       IN  IF ~content                                       \* if (!content) 400
           THEN /\ http' = [http EXCEPT ![s] = Answered(r, 400)]
                /\ quiet' = FALSE
           ELSE /\ http' = [http EXCEPT ![s] = [r EXCEPT !.pc = "getConversation"]]
                /\ quiet' = quiet
    /\ UNCHANGED << conversations, messages, messageUuids, activeConversations, call >>
    /\ UNCHANGED << searchVars, cosineVars >>

\* createUserMessage resumes with the conversation, null or an error
CreateUserMessageConversationRead(s, error) ==
    /\ http[s].kind = "createUserMessage"
    /\ http[s].pc = "getConversation"
    /\ IF error
       THEN http' = [http EXCEPT ![s] = Answered(@, 500)]
       ELSE IF ~IsStored(conversations, http[s].conv)
       THEN http' = [http EXCEPT ![s] = Answered(@, 404)]         \* 'Conversation not found'
       ELSE http' = [http EXCEPT ![s] = [@ EXCEPT !.pc = "saveMessage",
                                                  !.count = conversations[http[s].conv].message_count]]
    /\ quiet' = ( quiet /\ ~error /\ IsStored(conversations, http[s].conv) )
    /\ UNCHANGED << conversations, messages, messageUuids, activeConversations, call, started >>
    /\ UNCHANGED << searchVars, cosineVars >>

\* createUserMessage resumes after storage.saveMessage: the lookup of the
\* conversation and the insert of MessageRepository.saveMessage
CreateUserMessageSaved(s, error) ==
    /\ http[s].kind = "createUserMessage"
    /\ http[s].pc = "saveMessage"
    /\ IF error \/ ~IsStored(conversations, http[s].conv)
       THEN /\ http' = [http EXCEPT ![s] = Answered(@, 500)]
            /\ quiet' = FALSE
            /\ UNCHANGED << messages, messageUuids >>
       ELSE /\ messages' = messages \cup { Message(messageUuids + 1, http[s].conv, "user", 0) }
            /\ messageUuids' = messageUuids + 1
            /\ http' = [http EXCEPT ![s] = [@ EXCEPT !.pc = "updateConversation",
                                                   !.msg = messageUuids + 1]]
            /\ quiet' = quiet
    /\ UNCHANGED << conversations, activeConversations, call, started >>
    /\ UNCHANGED << searchVars, cosineVars >>

\* createUserMessage resumes after storage.updateConversation(uuid,
\* { messageCount: conversation.messageCount + 1 })
CreateUserMessageCountUpdated(s, error) ==
    /\ http[s].kind = "createUserMessage"
    /\ http[s].pc = "updateConversation"
    /\ IF error \/ ~IsStored(conversations, http[s].conv)
       THEN /\ http' = [http EXCEPT ![s] = Answered(@, 500)]
            /\ quiet' = FALSE
            /\ UNCHANGED conversations
       ELSE /\ conversations' = [conversations EXCEPT ![http[s].conv] = StoredRow(http[s].count + 1)]
            /\ http' = [http EXCEPT ![s] = Answered(@, 200)]
            /\ quiet' = quiet
    /\ UNCHANGED << messages, messageUuids, activeConversations, call, started >>
    /\ UNCHANGED << searchVars, cosineVars >>

\* POST /api/messages/:uuid/generate up to await storage.getMessageById
GenerateResponse(s, m) ==
    /\ started < MaxOps
    /\ SlotFree(s)
    /\ m <= messageUuids + 1
    /\ started' = started + 1
    /\ http' = [http EXCEPT ![s] = [NoRequest EXCEPT !.kind = "generateResponse",
                                                     !.pc = "getMessageById", !.msg = m]]
    /\ UNCHANGED << conversations, messages, messageUuids, activeConversations, call, quiet >>
    /\ UNCHANGED << searchVars, cosineVars >>

\* generateResponse resumes with the message, null or an error
GenerateResponseMessageRead(s, error) ==
    /\ http[s].kind = "generateResponse"
    /\ http[s].pc = "getMessageById"
    /\ LET found == { m \in messages : m.uuid = http[s].msg }
       IN  /\ IF error
              THEN http' = [http EXCEPT ![s] = Answered(@, 500)]
              ELSE IF found = { }
              THEN http' = [http EXCEPT ![s] = Answered(@, 404)]  \* 'Message not found'
              ELSE http' = [http EXCEPT ![s] =
                               [@ EXCEPT !.pc = "getMessages",
                                         !.conv = (CHOOSE m \in found : TRUE).conversation]]
           /\ quiet' = ( quiet /\ ~error /\ found # { } )
    /\ UNCHANGED << conversations, messages, messageUuids, activeConversations, call, started >>
    /\ UNCHANGED << searchVars, cosineVars >>

\* generateResponse resumes with the recent messages and calls
\* aiService.generateResponse
GenerateResponseHistoryRead(s, error) ==
    /\ http[s].kind = "generateResponse"
    /\ http[s].pc = "getMessages"
    /\ IF error \/ ~IsStored(conversations, http[s].conv)
       THEN /\ http' = [http EXCEPT ![s] = Answered(@, 500)]
            /\ quiet' = FALSE
       ELSE /\ http' = [http EXCEPT ![s] = [@ EXCEPT !.pc = "ai"]]
            /\ quiet' = quiet
    /\ UNCHANGED << conversations, messages, messageUuids, activeConversations, call, started >>
    /\ UNCHANGED << searchVars, cosineVars >>

\* aiService.generateResponse returns the response or throws
\* 'Failed to generate AI response'
GenerateResponseAIReturns(s, ok) ==
    /\ http[s].kind = "generateResponse"
    /\ http[s].pc = "ai"
    /\ IF ok
       THEN /\ http' = [http EXCEPT ![s] = [@ EXCEPT !.pc = "saveMessage"]]
            /\ quiet' = quiet
       ELSE /\ http' = [http EXCEPT ![s] = Answered([@ EXCEPT !.aiFailed = TRUE], 500)]
            /\ quiet' = FALSE
    /\ UNCHANGED << conversations, messages, messageUuids, activeConversations, call, started >>
    /\ UNCHANGED << searchVars, cosineVars >>

\* generateResponse resumes after storage.saveMessage of the assistant message
GenerateResponseSaved(s, error) ==
    /\ http[s].kind = "generateResponse"
    /\ http[s].pc = "saveMessage"
    /\ IF error \/ ~IsStored(conversations, http[s].conv)
       THEN /\ http' = [http EXCEPT ![s] = Answered(@, 500)]
            /\ quiet' = FALSE
            /\ UNCHANGED << messages, messageUuids >>
       ELSE /\ messages' = messages \cup
                              { Message(messageUuids + 1, http[s].conv, "assistant", http[s].msg) }
            /\ messageUuids' = messageUuids + 1
            /\ http' = [http EXCEPT ![s] = [@ EXCEPT !.pc = "getConversation"]]
            /\ quiet' = quiet
    /\ UNCHANGED << conversations, activeConversations, call, started >>
    /\ UNCHANGED << searchVars, cosineVars >>

\* generateResponse resumes with the conversation: if (conversation) update
GenerateResponseConversationRead(s, error) ==
    /\ http[s].kind = "generateResponse"
    /\ http[s].pc = "getConversation"
    /\ IF error
       THEN http' = [http EXCEPT ![s] = Answered(@, 500)]
       ELSE IF ~IsStored(conversations, http[s].conv)
       THEN http' = [http EXCEPT ![s] = Answered(@, 200)]
       ELSE http' = [http EXCEPT ![s] = [@ EXCEPT !.pc = "updateConversation",
                                                  !.count = conversations[http[s].conv].message_count]]
    /\ quiet' = ( quiet /\ ~error )
    /\ UNCHANGED << conversations, messages, messageUuids, activeConversations, call, started >>
    /\ UNCHANGED << searchVars, cosineVars >>

\* generateResponse resumes after storage.updateConversation(conversationId,
\* { messageCount: conversation.messageCount + 1 })
GenerateResponseCountUpdated(s, error) ==
    /\ http[s].kind = "generateResponse"
    /\ http[s].pc = "updateConversation"
    /\ IF error \/ ~IsStored(conversations, http[s].conv)
       THEN /\ http' = [http EXCEPT ![s] = Answered(@, 500)]
            /\ quiet' = FALSE
            /\ UNCHANGED conversations
       ELSE /\ conversations' = [conversations EXCEPT ![http[s].conv] = StoredRow(http[s].count + 1)]
            /\ http' = [http EXCEPT ![s] = Answered(@, 200)]
            /\ quiet' = quiet
    /\ UNCHANGED << messages, messageUuids, activeConversations, call, started >>
    /\ UNCHANGED << searchVars, cosineVars >>

\* DELETE /api/conversations/:uuid up to await storage.deleteConversation
DeleteConversation(s, uuid) ==
    /\ started < MaxOps
    /\ SlotFree(s)
    /\ started' = started + 1
    /\ quiet' = FALSE
    /\ http' = [http EXCEPT ![s] = [NoRequest EXCEPT !.kind = "deleteConversation",
                                                     !.pc = "deleteConversation", !.conv = uuid]]
    /\ UNCHANGED << conversations, messages, messageUuids, activeConversations, call >>
    /\ UNCHANGED << searchVars, cosineVars >>

\* deleteConversation resumes: if (!success) 404 else { success: true }
DeleteConversationReturns(s, error) ==
    /\ http[s].kind = "deleteConversation"
    /\ http[s].pc = "deleteConversation"
    /\ LET found == IsStored(conversations, http[s].conv)
       IN  IF error
           THEN /\ http' = [http EXCEPT ![s] = Answered(@, 500)]
                /\ UNCHANGED << conversations, messages >>
           ELSE /\ conversations' = DeleteRow(conversations, http[s].conv)
                /\ messages' = DeleteCascade(messages, http[s].conv)
                /\ http' = [http EXCEPT ![s] =
                               Answered([@ EXCEPT !.deleted = found],
                                        IF DeleteConversationResult(found) THEN 200 ELSE 404)]
    /\ UNCHANGED << messageUuids, activeConversations, call, started, quiet >>
    /\ UNCHANGED << searchVars, cosineVars >>

\* ---------------------------------------------------- chat: ChatManager
\* activeConversations.set(threadId, conversation)
CacheSet(cache, threadId, conversation) == [cache EXCEPT ![threadId] = conversation]

\* sendMessage: catch of the save of the assistant message rethrowing
AssistantSaveOnErrorRaise == "raise"

\* sendMessage: catch (error) { console.error('Failed to save assistant message:', error); }
AssistantSaveOnError == "continue"

\* sendMessage going from its conversation straight to getRecentMessages
AfterConversationWithoutSave == "getMessages"

\* sendMessage, once it has its conversation: storage.saveMessage(userMessage)
AfterConversation == "saveUserMessage"

\* the call ends by throwing
Raises(c) == [c EXCEPT !.pc = "done", !.result = "raised"]

\* sendMessage(message, threadId) up to its first await on the storage; the
\* threadId "" stands for an omitted one
SendMessage(threadId) ==
    /\ started < MaxOps
    /\ CallFree
    /\ HasFreeConvId(conversations)
    /\ started' = started + 1
    /\ quiet' = FALSE
    /\ LET c == [NoCall EXCEPT !.kind = "sendMessage", !.threadId = threadId]
       IN  IF threadId # "" /\ activeConversations[threadId].present
           THEN call' = [c EXCEPT !.conversation = activeConversations[threadId],
                                  !.countBefore = activeConversations[threadId].messageCount,
                                  !.pc = AfterConversation]
           ELSE IF threadId # ""
           THEN call' = [c EXCEPT !.pc = "getConversation"]
           ELSE call' = [c EXCEPT !.pc = "saveConversation"]
    /\ UNCHANGED << conversations, messages, messageUuids, activeConversations, http >>
    /\ UNCHANGED << searchVars, cosineVars >>

\* getConversation inside sendMessage resumes with the row, null or an error
SendMessageConversationRead(error) ==
    /\ call.kind = "sendMessage"
    /\ call.pc = "getConversation"
    /\ IF error
       THEN /\ call' = Raises(call)
            /\ UNCHANGED activeConversations
       ELSE IF IsStored(conversations, call.threadId)
       THEN LET conversation == Conversation(call.threadId,
                                             conversations[call.threadId].message_count)
            IN  /\ activeConversations' = CacheSet(activeConversations, call.threadId, conversation)
                /\ call' = [call EXCEPT !.conversation = conversation,
                                        !.countBefore = conversation.messageCount,
                                        !.pc = AfterConversation]
       ELSE /\ call' = [call EXCEPT !.pc = "saveConversation"]  \* createConversation
            /\ UNCHANGED activeConversations
    /\ UNCHANGED << conversations, messages, messageUuids, http, started, quiet >>
    /\ UNCHANGED << searchVars, cosineVars >>

\* createConversation inside sendMessage resumes after storage.saveConversation
SendMessageConversationCreated(error) ==
    /\ call.kind = "sendMessage"
    /\ call.pc = "saveConversation"
    /\ IF error
       THEN /\ call' = Raises(call)
            /\ UNCHANGED << conversations, activeConversations >>
       ELSE LET id == NewConvId(conversations)
                conversation == Conversation(id, 0)
            IN  /\ conversations' = [conversations EXCEPT ![id] = StoredRow(0)]
                /\ activeConversations' = CacheSet(activeConversations, LocalThread[id], conversation)
                /\ call' = [call EXCEPT !.threadId = LocalThread[id],
                                        !.conversation = conversation,
                                        !.countBefore = 0,
                                        !.pc = AfterConversation]
    /\ UNCHANGED << messages, messageUuids, http, started, quiet >>
    /\ UNCHANGED << searchVars, cosineVars >>

\* sendMessage resumes after the save of the user message, which is logged
\* when it fails, and asks for the recent messages
SendMessageUserSaved(error) ==
    /\ call.kind = "sendMessage"
    /\ call.pc = "saveUserMessage"
    /\ IF error \/ ~IsStored(conversations, call.conversation.id)
       THEN /\ call' = [call EXCEPT !.pc = "getMessages", !.userSave = "failed"]
            /\ UNCHANGED << messages, messageUuids >>
       ELSE /\ messages' = messages \cup
                              { Message(messageUuids + 1, call.conversation.id, "user", 0) }
            /\ messageUuids' = messageUuids + 1
            /\ call' = [call EXCEPT !.pc = "getMessages", !.userSave = "saved",
                                    !.userMessage = messageUuids + 1]
    /\ UNCHANGED << conversations, activeConversations, http, started, quiet >>
    /\ UNCHANGED << searchVars, cosineVars >>

\* getRecentMessages returns the messages, or [] after an error, and
\* sendMessage calls aiService.generateResponse
SendMessageHistoryRead ==
    /\ call.kind = "sendMessage"
    /\ call.pc = "getMessages"
    /\ call' = [call EXCEPT !.pc = "ai"]
    /\ UNCHANGED << conversations, messages, messageUuids, activeConversations, http,
                    started, quiet >>
    /\ UNCHANGED << searchVars, cosineVars >>

\* aiService.generateResponse returns the response or throws; the response
\* is followed by the save of the assistant message
SendMessageAIReturns(ok) ==
    /\ call.kind = "sendMessage"
    /\ call.pc = "ai"
    /\ IF ok
       THEN call' = [call EXCEPT !.ai = "ok", !.pc = "saveAssistantMessage"]
       ELSE call' = Raises([call EXCEPT !.ai = "failed"])
    /\ UNCHANGED << conversations, messages, messageUuids, activeConversations, http,
                    started, quiet >>
    /\ UNCHANGED << searchVars, cosineVars >>

\* sendMessage resumes after the save of the assistant message:
\* conversation.messageCount += 2; conversation.updatedAt = new Date(); then
\* storage.updateConversation.  The object is the one activeConversations
\* holds under its threadId, if it still holds one.
SendMessageAssistantSaved(error) ==
    /\ call.kind = "sendMessage"
    /\ call.pc = "saveAssistantMessage"
    /\ LET failed == error \/ ~IsStored(conversations, call.conversation.id)
           conversation == [call.conversation EXCEPT !.messageCount = @ + 2,
                                                     !.expired = FALSE]
       IN  IF failed /\ AssistantSaveOnError = "raise"
           THEN /\ call' = Raises(call)
                /\ UNCHANGED << messages, messageUuids, activeConversations >>
           ELSE /\ IF failed
                   THEN UNCHANGED << messages, messageUuids >>
                   ELSE /\ messages' = messages \cup
                               { Message(messageUuids + 1, call.conversation.id, "assistant", 0) }
                        /\ messageUuids' = messageUuids + 1
                /\ call' = [call EXCEPT !.conversation = conversation,
                                        !.assistantMessage = IF failed THEN 0 ELSE messageUuids + 1,
                                        !.pc = "updateConversation"]
                /\ activeConversations' =
                       IF activeConversations[call.threadId].present
                       THEN CacheSet(activeConversations, call.threadId, conversation)
                       ELSE activeConversations
    /\ UNCHANGED << conversations, http, started, quiet >>
    /\ UNCHANGED << searchVars, cosineVars >>

\* sendMessage resumes after storage.updateConversation, whose failure is
\* logged: activeConversations.set(conversation.threadId, conversation) and
\* the return of the response
SendMessageConversationUpdated(error) ==
    /\ call.kind = "sendMessage"
    /\ call.pc = "updateConversation"
    /\ IF error \/ ~IsStored(conversations, call.conversation.id)
       THEN UNCHANGED conversations
       ELSE conversations' = [conversations EXCEPT ![call.conversation.id] =
                                 StoredRow(call.conversation.messageCount)]
    /\ activeConversations' = CacheSet(activeConversations, call.threadId, call.conversation)
    /\ call' = [call EXCEPT !.pc = "done", !.result = "response"]
    /\ UNCHANGED << messages, messageUuids, http, started, quiet >>
    /\ UNCHANGED << searchVars, cosineVars >>

\* getConversation(threadId): the cached conversation, or the read of the storage
GetConversation(threadId) ==
    /\ started < MaxOps
    /\ CallFree
    /\ started' = started + 1
    /\ quiet' = FALSE
    /\ LET c == [NoCall EXCEPT !.kind = "getConversation", !.threadId = threadId]
       IN  IF activeConversations[threadId].present
           THEN call' = [c EXCEPT !.conversation = activeConversations[threadId],
                                  !.pc = "done", !.result = "conversation"]
           ELSE call' = [c EXCEPT !.pc = "getConversation"]
    /\ UNCHANGED << conversations, messages, messageUuids, activeConversations, http >>
    /\ UNCHANGED << searchVars, cosineVars >>

\* getConversation resumes with the row, null or an error
GetConversationRead(error) ==
    /\ call.kind = "getConversation"
    /\ call.pc = "getConversation"
    /\ IF error
       THEN /\ call' = Raises(call)
            /\ UNCHANGED activeConversations
       ELSE IF IsStored(conversations, call.threadId)
       THEN LET conversation == Conversation(call.threadId,
                                             conversations[call.threadId].message_count)
            IN  /\ activeConversations' = CacheSet(activeConversations, call.threadId, conversation)
                /\ call' = [call EXCEPT !.conversation = conversation,
                                        !.pc = "done", !.result = "conversation"]
       ELSE /\ call' = [call EXCEPT !.pc = "done", !.result = "null"]
            /\ UNCHANGED activeConversations
    /\ UNCHANGED << conversations, messages, messageUuids, http, started, quiet >>
    /\ UNCHANGED << searchVars, cosineVars >>

\* ChatManager.deleteConversation(conversationId) up to await storage.deleteConversation
ManagerDeleteConversation(conversationId) ==
    /\ started < MaxOps
    /\ CallFree
    /\ started' = started + 1
    /\ quiet' = FALSE
    /\ call' = [NoCall EXCEPT !.kind = "deleteConversation", !.threadId = conversationId,
                              !.pc = "deleteConversation"]
    /\ UNCHANGED << conversations, messages, messageUuids, activeConversations, http >>
    /\ UNCHANGED << searchVars, cosineVars >>

\* the first entry of activeConversations, in insertion order, whose
\* conversation.id is the given one: the entry under the threadId made up by
\* createConversation precedes the entry under the uuid
FirstEntryOf(cache, conversationId) ==
    IF /\ conversationId \in ConvIdSet
       /\ cache[LocalThread[conversationId]].present
       /\ cache[LocalThread[conversationId]].id = conversationId
    THEN { LocalThread[conversationId] }
    ELSE { t \in ConvIdSet : t = conversationId /\ cache[t].present /\ cache[t].id = conversationId }

\* deleteConversation resumes: the first cached conversation with that id is
\* removed and the result returned; an error makes it return false
ManagerDeleteReturns(error) ==
    /\ call.kind = "deleteConversation"
    /\ call.pc = "deleteConversation"
    /\ IF error
       THEN /\ call' = [call EXCEPT !.pc = "done", !.result = "false"]
            /\ UNCHANGED << conversations, messages, activeConversations >>
       ELSE /\ conversations' = DeleteRow(conversations, call.threadId)
            /\ messages' = DeleteCascade(messages, call.threadId)
            /\ activeConversations' =
                   [t \in ThreadIds |->
                        IF t \in FirstEntryOf(activeConversations, call.threadId)
                        THEN NoConversation ELSE activeConversations[t]]
            /\ call' = [call EXCEPT !.pc = "done", !.result = "true"]
    /\ UNCHANGED << messageUuids, http, started, quiet >>
    /\ UNCHANGED << searchVars, cosineVars >>

\* more than conversationTimeout passes: every conversation object now has
\* an updatedAt older than the cutoff
TimeoutPasses ==
    /\ \/ \E t \in ThreadIds : activeConversations[t].present /\ ~activeConversations[t].expired
       \/ call.conversation.present /\ ~call.conversation.expired
    /\ activeConversations' =
           [t \in ThreadIds |-> IF activeConversations[t].present
                                THEN [activeConversations[t] EXCEPT !.expired = TRUE]
                                ELSE activeConversations[t]]
    /\ call' = IF call.conversation.present
               THEN [call EXCEPT !.conversation.expired = TRUE]
               ELSE call
    /\ UNCHANGED << conversations, messages, messageUuids, http, started, quiet >>
    /\ UNCHANGED << searchVars, cosineVars >>

\* the interval timer: cleanupExpiredConversations
CleanupExpiredConversations ==
    /\ \E t \in ThreadIds : activeConversations[t].present /\ activeConversations[t].expired
    /\ activeConversations' =
           [t \in ThreadIds |-> IF activeConversations[t].expired
                                THEN NoConversation ELSE activeConversations[t]]
    /\ UNCHANGED << conversations, messages, messageUuids, http, call, started, quiet >>
    /\ UNCHANGED << searchVars, cosineVars >>

\* ChatController alone: requests of two clients in flight at once
NextChat ==
    \/ \E s \in HttpSlots, uuid \in ConvIdSet, content \in BOOLEAN :
          CreateUserMessage(s, uuid, content)
    \/ \E s \in HttpSlots, error \in BOOLEAN : CreateUserMessageConversationRead(s, error)
    \/ \E s \in HttpSlots, error \in BOOLEAN : CreateUserMessageSaved(s, error)
    \/ \E s \in HttpSlots, error \in BOOLEAN : CreateUserMessageCountUpdated(s, error)
    \/ \E s \in HttpSlots, m \in 1..(2 * MaxOps) : GenerateResponse(s, m)
    \/ \E s \in HttpSlots, error \in BOOLEAN : GenerateResponseMessageRead(s, error)
    \/ \E s \in HttpSlots, error \in BOOLEAN : GenerateResponseHistoryRead(s, error)
    \/ \E s \in HttpSlots, ok \in BOOLEAN : GenerateResponseAIReturns(s, ok)
    \/ \E s \in HttpSlots, error \in BOOLEAN : GenerateResponseSaved(s, error)
    \/ \E s \in HttpSlots, error \in BOOLEAN : GenerateResponseConversationRead(s, error)
    \/ \E s \in HttpSlots, error \in BOOLEAN : GenerateResponseCountUpdated(s, error)
    \/ \E s \in HttpSlots, uuid \in ConvIdSet : DeleteConversation(s, uuid)
    \/ \E s \in HttpSlots, error \in BOOLEAN : DeleteConversationReturns(s, error)

SpecChat == InitChat /\ [][NextChat]_vars

\* ChatManager, with the DELETE requests of ChatController and the passing
\* of time
NextManager ==
    \/ \E threadId \in { "" } \cup ThreadIds : SendMessage(threadId)
    \/ \E error \in BOOLEAN : SendMessageConversationRead(error)
    \/ \E error \in BOOLEAN : SendMessageConversationCreated(error)
    \/ \E error \in BOOLEAN : SendMessageUserSaved(error)
    \/ SendMessageHistoryRead
    \/ \E ok \in BOOLEAN : SendMessageAIReturns(ok)
    \/ \E error \in BOOLEAN : SendMessageAssistantSaved(error)
    \/ \E error \in BOOLEAN : SendMessageConversationUpdated(error)
    \/ \E threadId \in ThreadIds : GetConversation(threadId)
    \/ \E error \in BOOLEAN : GetConversationRead(error)
    \/ \E conversationId \in ThreadIds : ManagerDeleteConversation(conversationId)
    \/ \E error \in BOOLEAN : ManagerDeleteReturns(error)
    \/ TimeoutPasses
    \/ CleanupExpiredConversations
    \/ \E s \in HttpSlots, uuid \in ConvIdSet : DeleteConversation(s, uuid)
    \/ \E s \in HttpSlots, error \in BOOLEAN : DeleteConversationReturns(s, error)

SpecManager == InitChat /\ [][NextManager]_vars

\* the two ways to send a message: the 2-API flow of one client next to
\* the calls of ChatManager.sendMessage
NextFlows ==
    \/ \E uuid \in ConvIdSet, content \in BOOLEAN : CreateUserMessage(1, uuid, content)
    \/ \E error \in BOOLEAN : CreateUserMessageConversationRead(1, error)
    \/ \E error \in BOOLEAN : CreateUserMessageSaved(1, error)
    \/ \E error \in BOOLEAN : CreateUserMessageCountUpdated(1, error)
    \/ \E m \in 1..(2 * MaxOps) : GenerateResponse(1, m)
    \/ \E error \in BOOLEAN : GenerateResponseMessageRead(1, error)
    \/ \E error \in BOOLEAN : GenerateResponseHistoryRead(1, error)
    \/ \E ok \in BOOLEAN : GenerateResponseAIReturns(1, ok)
    \/ \E error \in BOOLEAN : GenerateResponseSaved(1, error)
    \/ \E error \in BOOLEAN : GenerateResponseConversationRead(1, error)
    \/ \E error \in BOOLEAN : GenerateResponseCountUpdated(1, error)
    \/ \E threadId \in { "" } \cup ThreadIds : SendMessage(threadId)
    \/ \E error \in BOOLEAN : SendMessageConversationRead(error)
    \/ \E error \in BOOLEAN : SendMessageConversationCreated(error)
    \/ \E error \in BOOLEAN : SendMessageUserSaved(error)
    \/ SendMessageHistoryRead
    \/ \E ok \in BOOLEAN : SendMessageAIReturns(ok)
    \/ \E error \in BOOLEAN : SendMessageAssistantSaved(error)
    \/ \E error \in BOOLEAN : SendMessageConversationUpdated(error)

SpecFlows == InitChat /\ [][NextFlows]_vars

TypeOK ==
    /\ pc \in { "idle", "fetch", "body", "sleep", "semQuery", "kwQuery", "done",
               "itemEmbed", "itemWrite" }
    /\ attempt \in 0..maxRetries
    /\ requests \in 0..(maxRetries + 1)
    /\ dbQueries \in 0..2
    /\ dbErrors \in 0..dbQueries

\* ------------------------------------------------------------------ claims
\* what the caller of search supplied, with the documented default when omitted
SuppliedLimit == IF options.limit.set THEN options.limit.v ELSE 5
SuppliedThreshold == IF options.threshold.set THEN options.threshold.v ELSE Score(7, 100)

SearchReturned == pc = "done" /\ outcome.status = "ok"
Mode == IF options.type.set THEN options.type.v ELSE "hybrid"

\* the entries of s whose id did not occur earlier in s, in their order
RECURSIVE FirstOccurrences(_)
FirstOccurrences(s) ==
    IF s = << >> THEN << >>
    ELSE LET n == Len(s)
             front == SubSeq(s, 1, n - 1)
         IN  IF \E j \in 1..(n - 1) : s[j].id = s[n].id
             THEN FirstOccurrences(front)
             ELSE FirstOccurrences(front) \o << s[n] >>

FirstN(s, n) == [i \in 1..(IF n < Len(s) THEN n ELSE Len(s)) |-> s[i]]

\* C1: when generateEmbedding ends without a 2xx response body to read, it
\* returns null and search does not raise; a semantic search then returns the
\* empty list and a hybrid search returns exactly what the keyword pass returned.
C1_EmbeddingFailureDegrades ==
    /\ [][ ( /\ pc \in { "fetch", "body", "sleep" }
             /\ pc' \notin { "fetch", "body", "sleep" }
             /\ ~(pc = "body" /\ httpResp.ok) )
           => ( queryEmbedding'.kind = "null" /\ outcome'.status # "raised" ) ]_vars
    /\ [] ( ( /\ pc = "done"
              /\ outcome.status # "invalid"
              /\ Mode # "keyword"
              /\ queryEmbedding.kind = "null" )
            => ( /\ outcome.status = "ok"
                 /\ Mode = "semantic" => outcome.results = << >>
                 /\ Mode = "hybrid" => outcome.results = keywordResults ) )

\* three provider requests failed and the hybrid search returned keyword results
C1_Witness ==
    /\ SearchReturned
    /\ Mode = "hybrid"
    /\ queryEmbedding.kind = "null"
    /\ requests = 3
    /\ outcome.results # << >>

\* C2: one call of generateEmbedding issues at most 3 provider requests.
C2_AtMostThreeRequests == requests <= 3

C2_Witness == pc = "fetch" /\ requests = 3 /\ attempt = 3

\* C3: a non-2xx reply of the provider is never followed by another attempt:
\* generateEmbedding returns null without a further request.
C3_HttpErrorNeverRetried ==
    [][ ( pc = "body" /\ ~httpResp.ok /\ pc' # "body" )
        => ( pc' # "sleep" /\ queryEmbedding'.kind = "null" /\ requests' = requests ) ]_vars

\* C4: a DNS failure, connection failure or timeout of an attempt before the
\* third is followed by another attempt.
C4_TransientFailureRetried ==
    [][ ( pc = "fetch" /\ attempt < 3 /\ pc' \notin { "fetch", "body" } )
        => pc' = "sleep" ]_vars

\* C5: an attempt on which the provider hangs, while the request or while the
\* response body is outstanding, is ended by the per-attempt timeout.
C5_HungAttemptEndedByTimeout ==
    ( pc \in { "fetch", "body" } /\ provider = "hung" ) => timerArmed

\* C6: search with a non-empty query never raises, whatever fails.
C6_SearchNeverRaises ==
    ( pc = "done" /\ query # << >> ) => outcome.status = "ok"

\* a hybrid search during which both database queries reported an error
C6_Witness == SearchReturned /\ query # << >> /\ dbErrors = 2 /\ requests >= 1

\* C7: with an empty query no provider request and no database query is
\* issued and the request ends with the validation error, whoever calls search.
C7_EmptyQueryRejectedFirst ==
    ( caller # "none" /\ query = << >> )
        => ( /\ requests = 0
             /\ dbQueries = 0
             /\ pc = "done" => outcome.status = "invalid" )

\* C8: in semantic mode every result has score >= the threshold the caller
\* passed (0.7 when omitted).
C8_SemanticAboveThreshold ==
    ( SearchReturned /\ Mode = "semantic" )
        => \A i \in 1..Len(outcome.results) :
              ScoreGE(outcome.results[i].score, SuppliedThreshold)

\* threshold 0.9: three rows were scored, one passed
C8_Witness ==
    /\ SearchReturned
    /\ Mode = "semantic"
    /\ SuppliedThreshold = Score(9, 100)
    /\ Len(SemanticQuery(store, options)) = 3
    /\ Len(outcome.results) = 1
    /\ SuppliedLimit = 5

\* C9: in hybrid mode with limit L the result has at most L entries and is the
\* first L entries of the duplicate-free concatenation of the semantic pass
\* and the keyword pass, each run with limit ceil(L/2).
C9_HybridIsCappedMerge ==
    ( SearchReturned /\ Mode = "hybrid" )
        => LET L == SuppliedLimit
           IN  /\ Len(outcome.results) <= L
               /\ Len(semanticResults) <= (L + 1) \div 2
               /\ Len(keywordResults) <= (L + 1) \div 2
               /\ outcome.results
                     = FirstN(FirstOccurrences(semanticResults \o keywordResults), L)

\* the same for every limit that is omitted or supplied as 1 or more
HybridIsCappedMergeForPositiveLimit == SuppliedLimit >= 1 => C9_HybridIsCappedMerge

\* C10: in hybrid mode no two results share an id, and an item both passes
\* returned appears once, with the score of the semantic pass.
C10_HybridDedupKeepsSemantic ==
    ( SearchReturned /\ Mode = "hybrid" )
        => /\ \A i, j \in 1..Len(outcome.results) :
                  i # j => outcome.results[i].id # outcome.results[j].id
           /\ \A s \in 1..Len(semanticResults) : \A k \in 1..Len(keywordResults) :
                  semanticResults[s].id = keywordResults[k].id
                      => /\ Cardinality({ i \in 1..Len(outcome.results) :
                                 outcome.results[i].id = semanticResults[s].id }) = 1
                         /\ \A i \in 1..Len(outcome.results) :
                                outcome.results[i].id = semanticResults[s].id
                                    => outcome.results[i].score = semanticResults[s].score

\* an item came back from both passes, with a semantic score other than 0.8
C10_Witness ==
    /\ SearchReturned
    /\ Mode = "hybrid"
    /\ \E s \in 1..Len(semanticResults) : \E k \in 1..Len(keywordResults) :
          /\ semanticResults[s].id = keywordResults[k].id
          /\ ~ScoreEq(semanticResults[s].score, KeywordScore)

\* ------------------------------------------------- claims on the two passes
SemanticPassFailed == queryEmbedding.kind = "null" \/ semReply.state = "error"
KeywordPassFailed == kwReply.state = "error"
SearchEnded == pc = "done" /\ caller # "none" /\ outcome.status # "invalid"

\* C11: in hybrid mode with limit L, when exactly one of the two passes fails
\* (no embedding or a storage error in the semantic pass, a text-search error
\* in the keyword pass), search returns exactly the results of the other
\* pass, which are at most ceil(L/2).
C11_OneFailedPassLeavesTheOther ==
    ( SearchEnded /\ Mode = "hybrid" )
        => /\ ( SemanticPassFailed /\ ~KeywordPassFailed )
                => /\ outcome.status = "ok"
                   /\ outcome.results = keywordResults
                   /\ Len(outcome.results) = Len(kwReply.data)
                   /\ Len(outcome.results) <= (SuppliedLimit + 1) \div 2
           /\ ( KeywordPassFailed /\ ~SemanticPassFailed )
                => /\ outcome.status = "ok"
                   /\ outcome.results = semanticResults
                   /\ Len(outcome.results) <= (SuppliedLimit + 1) \div 2

\* the same for every limit that is omitted or supplied as 1 or more
OneFailedPassLeavesTheOtherForPositiveLimit ==
    SuppliedLimit >= 1 => C11_OneFailedPassLeavesTheOther

\* the similarity of the query vector to a row the semantic read returned
SimilarityTo(row) == cosineSimilarity(queryEmbedding, Arr(row.embedding.val))

\* positions in the reply of the semantic read whose similarity is >= t
Qualifying(t) == { i \in 1..Len(semReply.data) : ScoreGE(SimilarityTo(semReply.data[i]), t) }

\* C12: in semantic mode with limit L and threshold t, when both the embedding
\* and the read succeed, the results are in non-increasing score order, are
\* min(L, number of items with similarity >= t) many, each is such an item
\* with its similarity as score, and no item left out scores higher than one
\* returned.
C12_SemanticIsTopL ==
    ( SearchEnded /\ Mode = "semantic" /\ ~SemanticPassFailed )
        => LET rs == outcome.results
               q == Qualifying(SuppliedThreshold)
               In(i) == \E k \in 1..Len(rs) : rs[k].id = semReply.data[i].uuid
           IN  /\ outcome.status = "ok"
               /\ \A k \in 1..(Len(rs) - 1) : ScoreGE(rs[k].score, rs[k + 1].score)
               /\ Len(rs) = Min(SuppliedLimit, Cardinality(q))
               /\ \A k \in 1..Len(rs) : \E i \in q :
                      /\ rs[k].id = semReply.data[i].uuid
                      /\ rs[k].score = SimilarityTo(semReply.data[i])
               /\ \A i \in q : ~In(i) =>
                      \A k \in 1..Len(rs) : ScoreGE(rs[k].score, SimilarityTo(semReply.data[i]))

\* the same when neither the limit nor the threshold is supplied as 0
SemanticIsTopLForNonZeroOptions ==
    ( SuppliedLimit >= 1 /\ Truthy(SuppliedThreshold) ) => C12_SemanticIsTopL

\* the stored row with the given uuid
RowOf(id) == store[CHOOSE i \in 1..Len(store) : store[i].uuid = id]

\* C13: in semantic mode no result is an item whose embedding is absent or
\* has a length other than the query vector's, whatever the threshold.
C13_NoResultWithoutComparableEmbedding ==
    ( SearchEnded /\ Mode = "semantic" /\ outcome.status = "ok" )
        => \A k \in 1..Len(outcome.results) :
              LET e == RowOf(outcome.results[k].id).embedding
              IN  e.kind # "null" /\ Len(e.val) = Len(queryEmbedding.val)

\* the same for every threshold above 0
NoResultWithoutComparableEmbeddingAboveZero ==
    ( SuppliedThreshold.n > 0 ) => C13_NoResultWithoutComparableEmbedding

\* C14: in keyword mode with limit L every result has score 0.8, there are at
\* most L results, and they are the rows of the text search in its order.
C14_KeywordResultsAsReturned ==
    ( SearchEnded /\ Mode = "keyword" )
        => /\ outcome.status = "ok"
           /\ \A k \in 1..Len(outcome.results) : outcome.results[k].score = Score(4, 25)
           /\ Len(outcome.results) <= SuppliedLimit
           /\ Len(outcome.results) = Len(kwReply.data)
           /\ \A k \in 1..Len(outcome.results) : outcome.results[k].id = kwReply.data[k].uuid

\* the same for every limit that is omitted or supplied as 1 or more
KeywordResultsAsReturnedForPositiveLimit ==
    SuppliedLimit >= 1 => C14_KeywordResultsAsReturned

\* C15: when the read of semanticSearch reports an error, semanticSearch
\* returns the empty list and nothing is raised; likewise keywordSearch when
\* its text search reports an error.
C15_StorageErrorGivesEmptyPass ==
    [][ /\ ( pc = "semQuery" /\ semReply'.state = "error" )
            => ( semanticResults' = << >> /\ outcome'.status # "raised" )
        /\ ( pc = "kwQuery" /\ kwReply'.state = "error" )
            => ( keywordResults' = << >> /\ outcome'.status = "ok" ) ]_vars

\* a hybrid search whose read failed and whose text search then failed too,
\* after an embedding was obtained
C15_Witness ==
    /\ SearchReturned
    /\ Mode = "hybrid"
    /\ queryEmbedding.kind = "array"
    /\ semReply.state = "error"
    /\ kwReply.state = "error"
    /\ outcome.results = << >>

\* C16: search uses the limit, threshold and mode the caller supplied, and the
\* defaults 5, 0.7 and hybrid only for an option that is omitted.
C16_OptionsHonoured ==
    ( pc # "idle" /\ caller # "none" /\ outcome.status # "invalid" )
        => /\ LimitOf(options) = SuppliedLimit
           /\ ScoreEq(ThresholdOf(options), SuppliedThreshold)
           /\ TypeOf(options) = Mode

\* the same when neither the limit nor the threshold is supplied as 0
OptionsHonouredWhenNonZero ==
    ( SuppliedLimit # 0 /\ Truthy(SuppliedThreshold) ) => C16_OptionsHonoured

\* C20: when search is given a company id, every result is an item of that
\* company, in every mode.
C20_ResultsBelongToTenant ==
    ( SearchEnded /\ options.company_id.set )
        => \A k \in 1..Len(outcome.results) :
              RowOf(outcome.results[k].id).company_id = options.company_id.v

\* the same for every company id other than 0
ResultsBelongToNonZeroTenant ==
    options.company_id.v # 0 => C20_ResultsBelongToTenant

\* ------------------------------------------------- claims on the item store
\* C17: every stored item's embedding is absent or embeddingDimensions long,
\* and an item has an embedding only if it was sent to generateEmbedding with
\* non-empty content.
C17_EmbeddingsWellFormed ==
    \A i \in 1..Len(store) :
        store[i].embedding.kind # "null"
            => /\ Len(store[i].embedding.val) = embeddingDimensions
               /\ store[i].uuid \in passed

\* the length half alone
EmbeddingsHaveTheConfiguredLength ==
    \A i \in 1..Len(store) :
        store[i].embedding.kind # "null"
            => Len(store[i].embedding.val) = embeddingDimensions

\* a step of updateItem changes the content of the row at position i
ContentChanged(i) ==
    /\ op.kind = "update"
    /\ Len(store') = Len(store)
    /\ store'[i].content # store[i].content

\* C18: when updateItem changes an item's content, the item's embedding
\* afterwards is the embedding of the new content, also when the embedding call
\* of the update failed.
C18_EmbeddingFollowsContent ==
    [][ \A i \in 1..Len(store) :
            ContentChanged(i)
                => store'[i].embedding = Arr(EmbeddingOf(store'[i].content.v)) ]_vars

\* the weaker statement that the embedding computed from the previous content
\* does not stay
NoStaleEmbedding ==
    [][ \A i \in 1..Len(store) :
            ( ContentChanged(i) /\ store[i].embedding.kind # "null" )
                => store'[i].embedding # store[i].embedding ]_vars

\* a step of createItem inserts a row
Inserted == op.kind = "create" /\ Len(store') = Len(store) + 1

\* C19 as stated: whenever content is supplied, for every item type,
\* createItem has called generateEmbedding before it issues the insert, and
\* when the call returned an embedding the inserted row carries it.
C19_EmbeddingBeforeInsertForEveryType ==
    /\ [] ( ( op.kind = "create" /\ pc = "itemWrite" /\ op.content.set )
             => op.embedCalled )
    /\ [][ ( Inserted /\ op.content.set )
            => ( /\ op.embedCalled
                 /\ op.embedding.kind # "null"
                        => store'[Len(store')].embedding = op.embedding ) ]_vars

\* C19 amended: whenever non-empty content is supplied and the type is
\* document or file, createItem has called generateEmbedding before it issues
\* the insert, and when the call returned an embedding the inserted row
\* carries it.
C19_EmbeddingBeforeInsert ==
    /\ [] ( ( /\ op.kind = "create"
               /\ pc = "itemWrite"
               /\ HasContent(op.content)
               /\ op.type \in { "document", "file" } )
             => op.embedCalled )
    /\ [][ ( Inserted /\ HasContent(op.content) /\ op.type \in { "document", "file" } )
            => ( /\ op.embedCalled
                 /\ op.embedding.kind # "null"
                        => store'[Len(store')].embedding = op.embedding ) ]_vars

\* a file item with content was inserted with the embedding of its content
C19_Witness ==
    /\ pc = "done"
    /\ op.kind = "create"
    /\ op.type = "file"
    /\ outcome.status = "ok"
    /\ op.embedCalled
    /\ \E i \in 1..Len(store) :
          /\ store[i].uuid = op.uuid
          /\ store[i].content = Opt("x")
          /\ store[i].embedding = Arr(EmbeddingOf("x"))

\* C21 as stated: search leaves the item store as it was, and every semantic
\* or hybrid search that ran has issued an embedding request of its own.
C21_EverySearchIssuesItsRequest ==
    [][ /\ store' = store
        /\ ( SearchEnded' /\ Mode' # "keyword" ) => requests' >= 1 ]_vars

\* C21: search leaves the item store as it was and keeps nothing between
\* calls: a call starts with no embedding and no request counted, every
\* semantic or hybrid search made with OPENAI_API_KEY set has issued an
\* embedding request of its own, and a query embedding in use was always
\* fetched by the call that uses it.
C21_SearchIsStateless ==
    [][ /\ store' = store
        /\ ( SearchEnded' /\ Mode' # "keyword" /\ apiKey ) => requests' >= 1
        /\ queryEmbedding'.kind # "null" => requests' >= 1
        /\ pc = "idle" => ( requests' <= 1 /\ queryEmbedding' = EmbNull ) ]_vars

\* a semantic search fetched its embedding on the second attempt and returned
\* two results
C21_Witness ==
    /\ SearchReturned
    /\ Mode = "semantic"
    /\ requests = 2
    /\ queryEmbedding = Arr(<< 1, 0 >>)
    /\ Len(outcome.results) = 2

\* the create request in progress lacks a field its type makes mandatory, or
\* has a type outside validTypes
MissingMandatoryField ==
    \/ op.type \notin validTypes
    \/ op.type = "document" /\ ~HasContent(op.content)
    \/ op.type \in { "file", "url" } /\ ~op.file_url

\* C22: a create request of type document without content, of type file or
\* url without file_url, or of a type outside validTypes, is answered with the
\* validation error at once, and the item store is what it was before.
C22_CreateValidatesMandatoryFields ==
    /\ [] ( ( op.kind = "create" /\ MissingMandatoryField )
             => ( pc = "done" /\ outcome = Invalid ) )
    /\ [][ ( op'.kind = "create" /\ outcome'.status = "invalid" )
            => store' = store ]_vars

\* a url item with content but without file_url was refused while the store
\* held an item
C22_Witness ==
    /\ pc = "done"
    /\ outcome = Invalid
    /\ op.kind = "create"
    /\ op.type = "url"
    /\ HasContent(op.content)
    /\ ~op.file_url
    /\ Len(store) = 1

\* ids of the rows the text search returned
KeywordIds == { kwReply.data[i].uuid : i \in 1..Len(kwReply.data) }

\* ids of the rows of the semantic read whose similarity reaches the threshold
SemanticMatchIds ==
    { semReply.data[i].uuid : i \in Qualifying(ThresholdOf(options)) }

\* C27: in hybrid mode with limit L each pass contributes at most ceil(L/2)
\* entries: at most ceil(L/2) results are items the text search did not
\* return, at most ceil(L/2) are items the semantic pass did not match, and
\* every result is an entry of one of the two capped passes. So a search can
\* return fewer than L results although L stored items match (C27_Witness).
C27_MatchesBeyondTheCapAreNotUsed ==
    ( SearchReturned /\ Mode = "hybrid" /\ SuppliedLimit >= 1 )
        => LET cap == Ceil2(SuppliedLimit)
               ids == { outcome.results[k].id : k \in 1..Len(outcome.results) }
           IN  /\ Cardinality(ids \ KeywordIds) <= cap
               /\ Cardinality(ids \ SemanticMatchIds) <= cap
               /\ \A k \in 1..Len(outcome.results) :
                     \/ \E j \in 1..Len(semanticResults) :
                           semanticResults[j] = outcome.results[k]
                     \/ \E j \in 1..Len(keywordResults) :
                           keywordResults[j] = outcome.results[k]

\* a hybrid search with limit 3 returned 2 results although 3 stored items
\* reach the threshold: the third match was cut by the cap of the semantic pass
C27_Witness ==
    /\ SearchReturned
    /\ Mode = "hybrid"
    /\ SuppliedLimit = 3
    /\ Cardinality(SemanticMatchIds) = 3
    /\ Len(semanticResults) = 2
    /\ Len(outcome.results) = 2

\* ------------------------------------------------ claims on cosineSimilarity
Compared == similarity # NotCompared
ZeroVector(v) == \A i \in 1..Len(v) : IsZero(v[i])

\* an argument is absent or not an array, a vector is empty, the lengths
\* differ, or a vector has magnitude zero
DegenerateArguments ==
    \/ vecA.kind # "array" \/ vecB.kind # "array"
    \/ Len(vecA.val) = 0 \/ Len(vecB.val) = 0
    \/ Len(vecA.val) # Len(vecB.val)
    \/ ZeroVector(vecA.val) \/ ZeroVector(vecB.val)

\* C25: called with an absent or non-array argument, with empty vectors, with
\* vectors of different lengths or with a vector of magnitude zero,
\* cosineSimilarity returns (it does not raise) and the value returned is 0.
C25_DegenerateArgumentsGiveZero ==
    ( Compared /\ DegenerateArguments ) => similarity = FlZero

\* two vectors of different lengths, neither of them zero, were compared
C25_Witness ==
    /\ Compared
    /\ vecA = Arr(<< FromInt(1), FromInt(2) >>)
    /\ vecB = Arr(<< FromInt(1) >>)
    /\ similarity = FlZero

\* a number with all its significant bits: neither 0, subnormal, Infinity nor NaN
Normal(x) == x.k = "num" /\ x.m >= 2 ^ (MantissaBits - 1)

\* vecA is compared with itself, and neither its squared length nor the
\* product of the magnitudes overflows or underflows
SelfComparison ==
    /\ Compared
    /\ vecA.kind = "array"
    /\ vecB = vecA
    /\ ~ZeroVector(vecA.val)

NoOverflowOrUnderflow ==
    LET squared == ReduceDot(vecA.val, vecA.val, Len(vecA.val))
        magnitude == FlSqrt(squared)
    IN  Normal(squared) /\ Normal(FlMul(magnitude, magnitude))

\* four units of roundoff: 2^(2 - MantissaBits), 2^-51 for doubles
Tolerance == Num(FALSE, 2 ^ (MantissaBits - 1), 3 - 2 * MantissaBits)
Minus(x) == [x EXCEPT !.neg = ~x.neg]

\* C26 as stated: a non-zero vector compared with itself has similarity 1 and
\* so passes the threshold 1.
C26_SelfSimilarityIsOne ==
    SelfComparison => ( similarity = FlOne /\ FlGE(similarity, FlOne) )

\* C26: a vector compared with itself, its squared length computed without
\* overflow or underflow, has similarity 1 up to four units of roundoff, and
\* so passes every threshold up to 1 less that tolerance.
C26_SelfSimilarityWithinTolerance ==
    ( SelfComparison /\ NoOverflowOrUnderflow )
        => /\ FlGE(similarity, FlAdd(FlOne, Minus(Tolerance)))
           /\ FlGE(FlAdd(FlOne, Tolerance), similarity)

\* a vector compared with itself got a similarity below 1
C26_Witness ==
    /\ SelfComparison
    /\ NoOverflowOrUnderflow
    /\ similarity # FlOne
    /\ ~FlGE(similarity, FlOne)

\* ------------------------------------------------- claims on ChatController
\* C24: DELETE /api/conversations/{uuid} answers 404 when no stored
\* conversation has that uuid, and answers with success only when a
\* conversation was deleted.
C24_DeleteAnswersNotFound ==
    \A s \in HttpSlots :
        ( http[s].kind = "deleteConversation" /\ http[s].pc = "done" /\ http[s].status # 500 )
            => /\ ~http[s].deleted => http[s].status = 404
               /\ http[s].status = 200 => http[s].deleted

\* the requests of ChatController.createUserMessage and generateResponse
\* have all been answered
AllCompleted == \A s \in HttpSlots : http[s].pc \in { "idle", "done" }

\* C28: once every createUserMessage and generateResponse request has
\* completed, and none of them failed, the message_count of each stored
\* conversation is the number of messages stored for it.
C28_CountMatchesStoredMessages ==
    ( quiet /\ AllCompleted )
        => \A c \in ConvIdSet :
              IsStored(conversations, c)
                  => conversations[c].message_count = Cardinality(MessagesOf(messages, c))

\* --------------------------------------------------- claims on ChatManager
\* the step in which a call of sendMessage returns or raises
SendMessageEnds == call.kind = "sendMessage" /\ call.pc # "done" /\ call'.pc = "done"

\* C29: a call of sendMessage whose AI generation succeeds returns the
\* response, has raised the messageCount of its conversation by exactly 2
\* and leaves the conversation in activeConversations, whatever the saves
\* and the update did; one whose AI generation fails raises, leaves the
\* messageCount as it was and has saved no assistant message.
C29_SendMessageSurvivesStorageFailures ==
    [][ SendMessageEnds =>
          /\ call'.ai = "ok" =>
                /\ call'.result = "response"
                /\ call'.conversation.messageCount = call'.countBefore + 2
                /\ activeConversations'[call'.threadId] = call'.conversation
                /\ call'.conversation.present
          /\ call'.ai = "failed" =>
                /\ call'.result = "raised"
                /\ call'.conversation.messageCount = call'.countBefore
                /\ activeConversations' = activeConversations
                /\ call'.assistantMessage = 0
                /\ messages' = messages ]_vars

\* sendMessage has returned the response although neither message was saved
\* and the stored count was not updated
C29_Witness ==
    /\ call.kind = "sendMessage"
    /\ call.pc = "done"
    /\ call.result = "response"
    /\ call.userMessage = 0
    /\ call.assistantMessage = 0
    /\ call.conversation.messageCount = call.countBefore + 2
    /\ activeConversations[call.threadId] = call.conversation
    /\ IsStored(conversations, call.conversation.id)
    /\ conversations[call.conversation.id].message_count # call.conversation.messageCount

\* the step in which a call of ChatManager.getConversation returns
GetConversationReturns ==
    /\ call'.kind = "getConversation"
    /\ call'.pc = "done"
    /\ started' # started \/ call.pc = "getConversation"

\* C30: getConversation never returns a conversation that has been deleted
\* from storage, whether it was deleted through ChatManager.deleteConversation
\* or through the storage layer as ChatController.deleteConversation does.
C30_DeletedConversationsAreNotServed ==
    [][ ( GetConversationReturns /\ call'.result = "conversation" )
            => IsStored(conversations', call'.conversation.id) ]_vars

\* cleanupExpiredConversations removes only expired entries and leaves the
\* storage alone
CleanupRemovesOnlyExpiredEntries ==
    [][ ( call' = call /\ \E t \in ThreadIds :
                              activeConversations[t].present /\ ~activeConversations'[t].present )
            => /\ conversations' = conversations
               /\ messages' = messages
               /\ \A t \in ThreadIds :
                     activeConversations'[t] # activeConversations[t]
                         => ( activeConversations[t].expired /\ ~activeConversations'[t].present ) ]_vars

\* ------------------------------------------ claims on the two message flows
\* the message a generateResponse request was sent for is stored
RequestMessageStored(s) == \E m \in messages : m.uuid = http[s].msg

\* the user message of the call of sendMessage is stored
CallMessageStored ==
    \E m \in messages :
        m.uuid = call.userMessage /\ m.role = "user" /\ m.conversation = call.conversation.id

\* AI generation is being attempted by generateResponse only for a stored message
StoredBeforeAIInTwoApiFlow ==
    \A s \in HttpSlots :
        ( http[s].kind = "generateResponse" /\ ( http[s].pc = "ai" \/ http[s].aiFailed ) )
            => RequestMessageStored(s)

\* the step in which a call of the AI service fails
AIFails ==
    \/ \E s \in HttpSlots : http[s].pc = "ai" /\ http'[s].aiFailed
    \/ call.pc = "ai" /\ call'.ai = "failed"

\* C23 as stated: the user message is stored before AI generation is
\* attempted, in the 2-API flow and in sendMessage, and a failure of the AI
\* call removes no message.
C23_StoredBeforeAIAttempt ==
    /\ [] ( /\ StoredBeforeAIInTwoApiFlow
            /\ ( call.kind = "sendMessage" /\ ( call.pc = "ai" \/ call.ai = "failed" ) )
                   => CallMessageStored )
    /\ [][ AIFails => messages' = messages ]_vars

\* C23: the save of the user message is made before AI generation is
\* attempted.  In the 2-API flow AI generation is attempted only for a
\* stored message; in sendMessage a failed save is logged and AI generation
\* is attempted all the same, so the message is stored then only if its save
\* succeeded.  A failure of the AI call removes no message.
C23_SaveAttemptedBeforeAIAttempt ==
    /\ [] ( /\ StoredBeforeAIInTwoApiFlow
            /\ ( call.kind = "sendMessage" /\ ( call.pc = "ai" \/ call.ai = "failed" ) )
                   => /\ call.userSave # "none"
                      /\ call.userSave = "saved" => CallMessageStored )
    /\ [][ AIFails => messages' = messages ]_vars

\* the AI call has failed in both flows and both user messages are stored
C23_Witness ==
    /\ \E s \in HttpSlots :
          /\ http[s].kind = "generateResponse"
          /\ http[s].aiFailed
          /\ RequestMessageStored(s)
    /\ call.kind = "sendMessage"
    /\ call.ai = "failed"
    /\ call.userSave = "saved"
    /\ CallMessageStored

====
